---------------------------- MODULE Spec2Model ----------------------------
(***************************************************************************)
(* A model of the rfc2289-otp crate (src/src/lib.rs): the fold engine, the *)
(* checksum, the six-word codec over the standard dictionary, the iterated *)
(* OTP engine over the built-in and the dynamically supplied digests, the  *)
(* challenge and response parsers, and the conversion of a parsed response *)
(* to bytes.                                                               *)
(*                                                                         *)
(* Text (&str) is a sequence of bytes 0..255 (str::len counts bytes); a    *)
(* u64 is four 16-bit limbs, most significant first, because its values   *)
(* exceed the integers of the model checker; a u8 is a number kept in      *)
(* 0..255.  Option values are records tagged "Some" / "None"; a panic   *)
(* of the program is the outcome tagged "Panic".                           *)
(***************************************************************************)
EXTENDS Integers, Sequences, FiniteSets, TLC

(***************************************************************************)
(* Bounds of the checked instances.                                        *)
(***************************************************************************)
\* largest iteration count handed to calculate_otp
MaxCount == 2
\* longest seed, in characters drawn from SeedChars
MaxSeedChars == 2
\* longest passphrase, in characters drawn from PassChars
MaxPassChars == 1
\* number of text pieces appended after the challenge prefix
MaxPieces == 4
\* number of sections and tails appended after the prefix of a response
MaxParts == 4
\* longest buffer handed to fold_md, besides the 64-byte one
MaxFoldLen == 20
\* the most words of a sentence handed to try_into_bytes
MaxWords == 7

(***************************************************************************)
(* Option / outcome values.                                                *)
(***************************************************************************)
None == [tag |-> "None"]

Some(x) == [tag |-> "Some", val |-> x]

Panic(msg) == [tag |-> "Panic", msg |-> msg]

IsSome(o) == o.tag = "Some"

IsNone(o) == o.tag = "None"

IsPanic(o) == o.tag = "Panic"

(***************************************************************************)
(* Machine integers.  A u8 is a number in 0..255.  A u64 is four 16-bit    *)
(* limbs <<w1, w2, w3, w4>>, most significant first.                       *)
(***************************************************************************)
\* 2^0 .. 2^16, tabulated
PowersOf2 ==
  <<1, 2, 4, 8, 16, 32, 64, 128, 256, 512, 1024, 2048, 4096, 8192, 16384,
    32768, 65536>>

Pow2(n) == PowersOf2[n + 1]

\* a & b on naturals
RECURSIVE BitAnd(_, _)
BitAnd(a, b) ==
  IF a = 0 \/ b = 0 THEN 0
  ELSE ((a % 2) * (b % 2)) + (2 * BitAnd(a \div 2, b \div 2))

\* a | b on naturals
RECURSIVE BitOr(_, _)
BitOr(a, b) ==
  IF a = 0 THEN b
  ELSE IF b = 0 THEN a
  ELSE (IF (a % 2) + (b % 2) > 0 THEN 1 ELSE 0) + (2 * BitOr(a \div 2, b \div 2))

\* a ^ b on naturals
RECURSIVE BitXor(_, _)
BitXor(a, b) ==
  IF a = 0 THEN b
  ELSE IF b = 0 THEN a
  ELSE (((a % 2) + (b % 2)) % 2) + (2 * BitXor(a \div 2, b \div 2))

\* u8 >> n
Shr8(a, n) == a \div Pow2(n)

\* u8 + u8 in release arithmetic (wrapping at 8 bits)
Add8(a, b) == (a + b) % 256

\* u64::from_be_bytes
U64FromBeBytes(b) ==
  <<(b[1] * 256) + b[2], (b[3] * 256) + b[4],
    (b[5] * 256) + b[6], (b[7] * 256) + b[8]>>

\* u64::to_be_bytes
U64ToBeBytes(x) ==
  <<x[1] \div 256, x[1] % 256, x[2] \div 256, x[2] % 256,
    x[3] \div 256, x[3] % 256, x[4] \div 256, x[4] % 256>>

\* a number below 2^31 as u64
U64FromNat(n) == <<0, 0, n \div 65536, n % 65536>>

\* the number a u64 below 2^31 holds (`as usize`, `as u64`)
U64ToNat(x) == (x[3] * 65536) + x[4]

U64Zero == <<0, 0, 0, 0>>

\* limb i of x, zero outside 1..4
Limb(x, i) == IF i >= 1 /\ i <= 4 THEN x[i] ELSE 0

\* u64 << n and u64::wrapping_shl(n), n < 64: limb i takes the low bits of
\* limb i + q and the high bits of limb i + q + 1, where n = 16 q + r
U64Shl(x, n) ==
  LET q == n \div 16
      r == n % 16
      limb(i) == ((Limb(x, i + q) % Pow2(16 - r)) * Pow2(r))
                 + (Limb(x, i + q + 1) \div Pow2(16 - r))
  IN <<limb(1), limb(2), limb(3), limb(4)>>

\* u64 >> n, n < 64
U64Shr(x, n) ==
  LET q == n \div 16
      r == n % 16
      limb(i) == (Limb(x, i - q) \div Pow2(r))
                 + ((Limb(x, i - q - 1) % Pow2(r)) * Pow2(16 - r))
  IN <<limb(1), limb(2), limb(3), limb(4)>>

U64And(x, y) ==
  <<BitAnd(x[1], y[1]), BitAnd(x[2], y[2]), BitAnd(x[3], y[3]), BitAnd(x[4], y[4])>>

U64Or(x, y) ==
  <<BitOr(x[1], y[1]), BitOr(x[2], y[2]), BitOr(x[3], y[3]), BitOr(x[4], y[4])>>

\* u64 + u64 for operands below 2^30
U64Add(x, y) == U64FromNat(U64ToNat(x) + U64ToNat(y))

(***************************************************************************)
(* The standard dictionary (RFC 1760), 2048 words, index = position - 1.   *)
(***************************************************************************)
STANDARD_DICTIONARY ==
  <<
    "A", "ABE", "ACE", "ACT", "AD", "ADA", "ADD", "AGO",
    "AID", "AIM", "AIR", "ALL", "ALP", "AM", "AMY", "AN",
    "ANA", "AND", "ANN", "ANT", "ANY", "APE", "APS", "APT",
    "ARC", "ARE", "ARK", "ARM", "ART", "AS", "ASH", "ASK",
    "AT", "ATE", "AUG", "AUK", "AVE", "AWE", "AWK", "AWL",
    "AWN", "AX", "AYE", "BAD", "BAG", "BAH", "BAM", "BAN",
    "BAR", "BAT", "BAY", "BE", "BED", "BEE", "BEG", "BEN",
    "BET", "BEY", "BIB", "BID", "BIG", "BIN", "BIT", "BOB",
    "BOG", "BON", "BOO", "BOP", "BOW", "BOY", "BUB", "BUD",
    "BUG", "BUM", "BUN", "BUS", "BUT", "BUY", "BY", "BYE",
    "CAB", "CAL", "CAM", "CAN", "CAP", "CAR", "CAT", "CAW",
    "COD", "COG", "COL", "CON", "COO", "COP", "COT", "COW",
    "COY", "CRY", "CUB", "CUE", "CUP", "CUR", "CUT", "DAB",
    "DAD", "DAM", "DAN", "DAR", "DAY", "DEE", "DEL", "DEN",
    "DES", "DEW", "DID", "DIE", "DIG", "DIN", "DIP", "DO",
    "DOE", "DOG", "DON", "DOT", "DOW", "DRY", "DUB", "DUD",
    "DUE", "DUG", "DUN", "EAR", "EAT", "ED", "EEL", "EGG",
    "EGO", "ELI", "ELK", "ELM", "ELY", "EM", "END", "EST",
    "ETC", "EVA", "EVE", "EWE", "EYE", "FAD", "FAN", "FAR",
    "FAT", "FAY", "FED", "FEE", "FEW", "FIB", "FIG", "FIN",
    "FIR", "FIT", "FLO", "FLY", "FOE", "FOG", "FOR", "FRY",
    "FUM", "FUN", "FUR", "GAB", "GAD", "GAG", "GAL", "GAM",
    "GAP", "GAS", "GAY", "GEE", "GEL", "GEM", "GET", "GIG",
    "GIL", "GIN", "GO", "GOT", "GUM", "GUN", "GUS", "GUT",
    "GUY", "GYM", "GYP", "HA", "HAD", "HAL", "HAM", "HAN",
    "HAP", "HAS", "HAT", "HAW", "HAY", "HE", "HEM", "HEN",
    "HER", "HEW", "HEY", "HI", "HID", "HIM", "HIP", "HIS",
    "HIT", "HO", "HOB", "HOC", "HOE", "HOG", "HOP", "HOT",
    "HOW", "HUB", "HUE", "HUG", "HUH", "HUM", "HUT", "I",
    "ICY", "IDA", "IF", "IKE", "ILL", "INK", "INN", "IO",
    "ION", "IQ", "IRA", "IRE", "IRK", "IS", "IT", "ITS",
    "IVY", "JAB", "JAG", "JAM", "JAN", "JAR", "JAW", "JAY",
    "JET", "JIG", "JIM", "JO", "JOB", "JOE", "JOG", "JOT",
    "JOY", "JUG", "JUT", "KAY", "KEG", "KEN", "KEY", "KID",
    "KIM", "KIN", "KIT", "LA", "LAB", "LAC", "LAD", "LAG",
    "LAM", "LAP", "LAW", "LAY", "LEA", "LED", "LEE", "LEG",
    "LEN", "LEO", "LET", "LEW", "LID", "LIE", "LIN", "LIP",
    "LIT", "LO", "LOB", "LOG", "LOP", "LOS", "LOT", "LOU",
    "LOW", "LOY", "LUG", "LYE", "MA", "MAC", "MAD", "MAE",
    "MAN", "MAO", "MAP", "MAT", "MAW", "MAY", "ME", "MEG",
    "MEL", "MEN", "MET", "MEW", "MID", "MIN", "MIT", "MOB",
    "MOD", "MOE", "MOO", "MOP", "MOS", "MOT", "MOW", "MUD",
    "MUG", "MUM", "MY", "NAB", "NAG", "NAN", "NAP", "NAT",
    "NAY", "NE", "NED", "NEE", "NET", "NEW", "NIB", "NIL",
    "NIP", "NIT", "NO", "NOB", "NOD", "NON", "NOR", "NOT",
    "NOV", "NOW", "NU", "NUN", "NUT", "O", "OAF", "OAK",
    "OAR", "OAT", "ODD", "ODE", "OF", "OFF", "OFT", "OH",
    "OIL", "OK", "OLD", "ON", "ONE", "OR", "ORB", "ORE",
    "ORR", "OS", "OTT", "OUR", "OUT", "OVA", "OW", "OWE",
    "OWL", "OWN", "OX", "PA", "PAD", "PAL", "PAM", "PAN",
    "PAP", "PAR", "PAT", "PAW", "PAY", "PEA", "PEG", "PEN",
    "PEP", "PER", "PET", "PEW", "PHI", "PI", "PIE", "PIN",
    "PIT", "PLY", "PO", "POD", "POE", "POP", "POT", "POW",
    "PRO", "PRY", "PUB", "PUG", "PUN", "PUP", "PUT", "QUO",
    "RAG", "RAM", "RAN", "RAP", "RAT", "RAW", "RAY", "REB",
    "RED", "REP", "RET", "RIB", "RID", "RIG", "RIM", "RIO",
    "RIP", "ROB", "ROD", "ROE", "RON", "ROT", "ROW", "ROY",
    "RUB", "RUE", "RUG", "RUM", "RUN", "RYE", "SAC", "SAD",
    "SAG", "SAL", "SAM", "SAN", "SAP", "SAT", "SAW", "SAY",
    "SEA", "SEC", "SEE", "SEN", "SET", "SEW", "SHE", "SHY",
    "SIN", "SIP", "SIR", "SIS", "SIT", "SKI", "SKY", "SLY",
    "SO", "SOB", "SOD", "SON", "SOP", "SOW", "SOY", "SPA",
    "SPY", "SUB", "SUD", "SUE", "SUM", "SUN", "SUP", "TAB",
    "TAD", "TAG", "TAN", "TAP", "TAR", "TEA", "TED", "TEE",
    "TEN", "THE", "THY", "TIC", "TIE", "TIM", "TIN", "TIP",
    "TO", "TOE", "TOG", "TOM", "TON", "TOO", "TOP", "TOW",
    "TOY", "TRY", "TUB", "TUG", "TUM", "TUN", "TWO", "UN",
    "UP", "US", "USE", "VAN", "VAT", "VET", "VIE", "WAD",
    "WAG", "WAR", "WAS", "WAY", "WE", "WEB", "WED", "WEE",
    "WET", "WHO", "WHY", "WIN", "WIT", "WOK", "WON", "WOO",
    "WOW", "WRY", "WU", "YAM", "YAP", "YAW", "YE", "YEA",
    "YES", "YET", "YOU", "ABED", "ABEL", "ABET", "ABLE", "ABUT",
    "ACHE", "ACID", "ACME", "ACRE", "ACTA", "ACTS", "ADAM", "ADDS",
    "ADEN", "AFAR", "AFRO", "AGEE", "AHEM", "AHOY", "AIDA", "AIDE",
    "AIDS", "AIRY", "AJAR", "AKIN", "ALAN", "ALEC", "ALGA", "ALIA",
    "ALLY", "ALMA", "ALOE", "ALSO", "ALTO", "ALUM", "ALVA", "AMEN",
    "AMES", "AMID", "AMMO", "AMOK", "AMOS", "AMRA", "ANDY", "ANEW",
    "ANNA", "ANNE", "ANTE", "ANTI", "AQUA", "ARAB", "ARCH", "AREA",
    "ARGO", "ARID", "ARMY", "ARTS", "ARTY", "ASIA", "ASKS", "ATOM",
    "AUNT", "AURA", "AUTO", "AVER", "AVID", "AVIS", "AVON", "AVOW",
    "AWAY", "AWRY", "BABE", "BABY", "BACH", "BACK", "BADE", "BAIL",
    "BAIT", "BAKE", "BALD", "BALE", "BALI", "BALK", "BALL", "BALM",
    "BAND", "BANE", "BANG", "BANK", "BARB", "BARD", "BARE", "BARK",
    "BARN", "BARR", "BASE", "BASH", "BASK", "BASS", "BATE", "BATH",
    "BAWD", "BAWL", "BEAD", "BEAK", "BEAM", "BEAN", "BEAR", "BEAT",
    "BEAU", "BECK", "BEEF", "BEEN", "BEER", "BEET", "BELA", "BELL",
    "BELT", "BEND", "BENT", "BERG", "BERN", "BERT", "BESS", "BEST",
    "BETA", "BETH", "BHOY", "BIAS", "BIDE", "BIEN", "BILE", "BILK",
    "BILL", "BIND", "BING", "BIRD", "BITE", "BITS", "BLAB", "BLAT",
    "BLED", "BLEW", "BLOB", "BLOC", "BLOT", "BLOW", "BLUE", "BLUM",
    "BLUR", "BOAR", "BOAT", "BOCA", "BOCK", "BODE", "BODY", "BOGY",
    "BOHR", "BOIL", "BOLD", "BOLO", "BOLT", "BOMB", "BONA", "BOND",
    "BONE", "BONG", "BONN", "BONY", "BOOK", "BOOM", "BOON", "BOOT",
    "BORE", "BORG", "BORN", "BOSE", "BOSS", "BOTH", "BOUT", "BOWL",
    "BOYD", "BRAD", "BRAE", "BRAG", "BRAN", "BRAY", "BRED", "BREW",
    "BRIG", "BRIM", "BROW", "BUCK", "BUDD", "BUFF", "BULB", "BULK",
    "BULL", "BUNK", "BUNT", "BUOY", "BURG", "BURL", "BURN", "BURR",
    "BURT", "BURY", "BUSH", "BUSS", "BUST", "BUSY", "BYTE", "CADY",
    "CAFE", "CAGE", "CAIN", "CAKE", "CALF", "CALL", "CALM", "CAME",
    "CANE", "CANT", "CARD", "CARE", "CARL", "CARR", "CART", "CASE",
    "CASH", "CASK", "CAST", "CAVE", "CEIL", "CELL", "CENT", "CERN",
    "CHAD", "CHAR", "CHAT", "CHAW", "CHEF", "CHEN", "CHEW", "CHIC",
    "CHIN", "CHOU", "CHOW", "CHUB", "CHUG", "CHUM", "CITE", "CITY",
    "CLAD", "CLAM", "CLAN", "CLAW", "CLAY", "CLOD", "CLOG", "CLOT",
    "CLUB", "CLUE", "COAL", "COAT", "COCA", "COCK", "COCO", "CODA",
    "CODE", "CODY", "COED", "COIL", "COIN", "COKE", "COLA", "COLD",
    "COLT", "COMA", "COMB", "COME", "COOK", "COOL", "COON", "COOT",
    "CORD", "CORE", "CORK", "CORN", "COST", "COVE", "COWL", "CRAB",
    "CRAG", "CRAM", "CRAY", "CREW", "CRIB", "CROW", "CRUD", "CUBA",
    "CUBE", "CUFF", "CULL", "CULT", "CUNY", "CURB", "CURD", "CURE",
    "CURL", "CURT", "CUTS", "DADE", "DALE", "DAME", "DANA", "DANE",
    "DANG", "DANK", "DARE", "DARK", "DARN", "DART", "DASH", "DATA",
    "DATE", "DAVE", "DAVY", "DAWN", "DAYS", "DEAD", "DEAF", "DEAL",
    "DEAN", "DEAR", "DEBT", "DECK", "DEED", "DEEM", "DEER", "DEFT",
    "DEFY", "DELL", "DENT", "DENY", "DESK", "DIAL", "DICE", "DIED",
    "DIET", "DIME", "DINE", "DING", "DINT", "DIRE", "DIRT", "DISC",
    "DISH", "DISK", "DIVE", "DOCK", "DOES", "DOLE", "DOLL", "DOLT",
    "DOME", "DONE", "DOOM", "DOOR", "DORA", "DOSE", "DOTE", "DOUG",
    "DOUR", "DOVE", "DOWN", "DRAB", "DRAG", "DRAM", "DRAW", "DREW",
    "DRUB", "DRUG", "DRUM", "DUAL", "DUCK", "DUCT", "DUEL", "DUET",
    "DUKE", "DULL", "DUMB", "DUNE", "DUNK", "DUSK", "DUST", "DUTY",
    "EACH", "EARL", "EARN", "EASE", "EAST", "EASY", "EBEN", "ECHO",
    "EDDY", "EDEN", "EDGE", "EDGY", "EDIT", "EDNA", "EGAN", "ELAN",
    "ELBA", "ELLA", "ELSE", "EMIL", "EMIT", "EMMA", "ENDS", "ERIC",
    "EROS", "EVEN", "EVER", "EVIL", "EYED", "FACE", "FACT", "FADE",
    "FAIL", "FAIN", "FAIR", "FAKE", "FALL", "FAME", "FANG", "FARM",
    "FAST", "FATE", "FAWN", "FEAR", "FEAT", "FEED", "FEEL", "FEET",
    "FELL", "FELT", "FEND", "FERN", "FEST", "FEUD", "FIEF", "FIGS",
    "FILE", "FILL", "FILM", "FIND", "FINE", "FINK", "FIRE", "FIRM",
    "FISH", "FISK", "FIST", "FITS", "FIVE", "FLAG", "FLAK", "FLAM",
    "FLAT", "FLAW", "FLEA", "FLED", "FLEW", "FLIT", "FLOC", "FLOG",
    "FLOW", "FLUB", "FLUE", "FOAL", "FOAM", "FOGY", "FOIL", "FOLD",
    "FOLK", "FOND", "FONT", "FOOD", "FOOL", "FOOT", "FORD", "FORE",
    "FORK", "FORM", "FORT", "FOSS", "FOUL", "FOUR", "FOWL", "FRAU",
    "FRAY", "FRED", "FREE", "FRET", "FREY", "FROG", "FROM", "FUEL",
    "FULL", "FUME", "FUND", "FUNK", "FURY", "FUSE", "FUSS", "GAFF",
    "GAGE", "GAIL", "GAIN", "GAIT", "GALA", "GALE", "GALL", "GALT",
    "GAME", "GANG", "GARB", "GARY", "GASH", "GATE", "GAUL", "GAUR",
    "GAVE", "GAWK", "GEAR", "GELD", "GENE", "GENT", "GERM", "GETS",
    "GIBE", "GIFT", "GILD", "GILL", "GILT", "GINA", "GIRD", "GIRL",
    "GIST", "GIVE", "GLAD", "GLEE", "GLEN", "GLIB", "GLOB", "GLOM",
    "GLOW", "GLUE", "GLUM", "GLUT", "GOAD", "GOAL", "GOAT", "GOER",
    "GOES", "GOLD", "GOLF", "GONE", "GONG", "GOOD", "GOOF", "GORE",
    "GORY", "GOSH", "GOUT", "GOWN", "GRAB", "GRAD", "GRAY", "GREG",
    "GREW", "GREY", "GRID", "GRIM", "GRIN", "GRIT", "GROW", "GRUB",
    "GULF", "GULL", "GUNK", "GURU", "GUSH", "GUST", "GWEN", "GWYN",
    "HAAG", "HAAS", "HACK", "HAIL", "HAIR", "HALE", "HALF", "HALL",
    "HALO", "HALT", "HAND", "HANG", "HANK", "HANS", "HARD", "HARK",
    "HARM", "HART", "HASH", "HAST", "HATE", "HATH", "HAUL", "HAVE",
    "HAWK", "HAYS", "HEAD", "HEAL", "HEAR", "HEAT", "HEBE", "HECK",
    "HEED", "HEEL", "HEFT", "HELD", "HELL", "HELM", "HERB", "HERD",
    "HERE", "HERO", "HERS", "HESS", "HEWN", "HICK", "HIDE", "HIGH",
    "HIKE", "HILL", "HILT", "HIND", "HINT", "HIRE", "HISS", "HIVE",
    "HOBO", "HOCK", "HOFF", "HOLD", "HOLE", "HOLM", "HOLT", "HOME",
    "HONE", "HONK", "HOOD", "HOOF", "HOOK", "HOOT", "HORN", "HOSE",
    "HOST", "HOUR", "HOVE", "HOWE", "HOWL", "HOYT", "HUCK", "HUED",
    "HUFF", "HUGE", "HUGH", "HUGO", "HULK", "HULL", "HUNK", "HUNT",
    "HURD", "HURL", "HURT", "HUSH", "HYDE", "HYMN", "IBIS", "ICON",
    "IDEA", "IDLE", "IFFY", "INCA", "INCH", "INTO", "IONS", "IOTA",
    "IOWA", "IRIS", "IRMA", "IRON", "ISLE", "ITCH", "ITEM", "IVAN",
    "JACK", "JADE", "JAIL", "JAKE", "JANE", "JAVA", "JEAN", "JEFF",
    "JERK", "JESS", "JEST", "JIBE", "JILL", "JILT", "JIVE", "JOAN",
    "JOBS", "JOCK", "JOEL", "JOEY", "JOHN", "JOIN", "JOKE", "JOLT",
    "JOVE", "JUDD", "JUDE", "JUDO", "JUDY", "JUJU", "JUKE", "JULY",
    "JUNE", "JUNK", "JUNO", "JURY", "JUST", "JUTE", "KAHN", "KALE",
    "KANE", "KANT", "KARL", "KATE", "KEEL", "KEEN", "KENO", "KENT",
    "KERN", "KERR", "KEYS", "KICK", "KILL", "KIND", "KING", "KIRK",
    "KISS", "KITE", "KLAN", "KNEE", "KNEW", "KNIT", "KNOB", "KNOT",
    "KNOW", "KOCH", "KONG", "KUDO", "KURD", "KURT", "KYLE", "LACE",
    "LACK", "LACY", "LADY", "LAID", "LAIN", "LAIR", "LAKE", "LAMB",
    "LAME", "LAND", "LANE", "LANG", "LARD", "LARK", "LASS", "LAST",
    "LATE", "LAUD", "LAVA", "LAWN", "LAWS", "LAYS", "LEAD", "LEAF",
    "LEAK", "LEAN", "LEAR", "LEEK", "LEER", "LEFT", "LEND", "LENS",
    "LENT", "LEON", "LESK", "LESS", "LEST", "LETS", "LIAR", "LICE",
    "LICK", "LIED", "LIEN", "LIES", "LIEU", "LIFE", "LIFT", "LIKE",
    "LILA", "LILT", "LILY", "LIMA", "LIMB", "LIME", "LIND", "LINE",
    "LINK", "LINT", "LION", "LISA", "LIST", "LIVE", "LOAD", "LOAF",
    "LOAM", "LOAN", "LOCK", "LOFT", "LOGE", "LOIS", "LOLA", "LONE",
    "LONG", "LOOK", "LOON", "LOOT", "LORD", "LORE", "LOSE", "LOSS",
    "LOST", "LOUD", "LOVE", "LOWE", "LUCK", "LUCY", "LUGE", "LUKE",
    "LULU", "LUND", "LUNG", "LURA", "LURE", "LURK", "LUSH", "LUST",
    "LYLE", "LYNN", "LYON", "LYRA", "MACE", "MADE", "MAGI", "MAID",
    "MAIL", "MAIN", "MAKE", "MALE", "MALI", "MALL", "MALT", "MANA",
    "MANN", "MANY", "MARC", "MARE", "MARK", "MARS", "MART", "MARY",
    "MASH", "MASK", "MASS", "MAST", "MATE", "MATH", "MAUL", "MAYO",
    "MEAD", "MEAL", "MEAN", "MEAT", "MEEK", "MEET", "MELD", "MELT",
    "MEMO", "MEND", "MENU", "MERT", "MESH", "MESS", "MICE", "MIKE",
    "MILD", "MILE", "MILK", "MILL", "MILT", "MIMI", "MIND", "MINE",
    "MINI", "MINK", "MINT", "MIRE", "MISS", "MIST", "MITE", "MITT",
    "MOAN", "MOAT", "MOCK", "MODE", "MOLD", "MOLE", "MOLL", "MOLT",
    "MONA", "MONK", "MONT", "MOOD", "MOON", "MOOR", "MOOT", "MORE",
    "MORN", "MORT", "MOSS", "MOST", "MOTH", "MOVE", "MUCH", "MUCK",
    "MUDD", "MUFF", "MULE", "MULL", "MURK", "MUSH", "MUST", "MUTE",
    "MUTT", "MYRA", "MYTH", "NAGY", "NAIL", "NAIR", "NAME", "NARY",
    "NASH", "NAVE", "NAVY", "NEAL", "NEAR", "NEAT", "NECK", "NEED",
    "NEIL", "NELL", "NEON", "NERO", "NESS", "NEST", "NEWS", "NEWT",
    "NIBS", "NICE", "NICK", "NILE", "NINA", "NINE", "NOAH", "NODE",
    "NOEL", "NOLL", "NONE", "NOOK", "NOON", "NORM", "NOSE", "NOTE",
    "NOUN", "NOVA", "NUDE", "NULL", "NUMB", "OATH", "OBEY", "OBOE",
    "ODIN", "OHIO", "OILY", "OINT", "OKAY", "OLAF", "OLDY", "OLGA",
    "OLIN", "OMAN", "OMEN", "OMIT", "ONCE", "ONES", "ONLY", "ONTO",
    "ONUS", "ORAL", "ORGY", "OSLO", "OTIS", "OTTO", "OUCH", "OUST",
    "OUTS", "OVAL", "OVEN", "OVER", "OWLY", "OWNS", "QUAD", "QUIT",
    "QUOD", "RACE", "RACK", "RACY", "RAFT", "RAGE", "RAID", "RAIL",
    "RAIN", "RAKE", "RANK", "RANT", "RARE", "RASH", "RATE", "RAVE",
    "RAYS", "READ", "REAL", "REAM", "REAR", "RECK", "REED", "REEF",
    "REEK", "REEL", "REID", "REIN", "RENA", "REND", "RENT", "REST",
    "RICE", "RICH", "RICK", "RIDE", "RIFT", "RILL", "RIME", "RING",
    "RINK", "RISE", "RISK", "RITE", "ROAD", "ROAM", "ROAR", "ROBE",
    "ROCK", "RODE", "ROIL", "ROLL", "ROME", "ROOD", "ROOF", "ROOK",
    "ROOM", "ROOT", "ROSA", "ROSE", "ROSS", "ROSY", "ROTH", "ROUT",
    "ROVE", "ROWE", "ROWS", "RUBE", "RUBY", "RUDE", "RUDY", "RUIN",
    "RULE", "RUNG", "RUNS", "RUNT", "RUSE", "RUSH", "RUSK", "RUSS",
    "RUST", "RUTH", "SACK", "SAFE", "SAGE", "SAID", "SAIL", "SALE",
    "SALK", "SALT", "SAME", "SAND", "SANE", "SANG", "SANK", "SARA",
    "SAUL", "SAVE", "SAYS", "SCAN", "SCAR", "SCAT", "SCOT", "SEAL",
    "SEAM", "SEAR", "SEAT", "SEED", "SEEK", "SEEM", "SEEN", "SEES",
    "SELF", "SELL", "SEND", "SENT", "SETS", "SEWN", "SHAG", "SHAM",
    "SHAW", "SHAY", "SHED", "SHIM", "SHIN", "SHOD", "SHOE", "SHOT",
    "SHOW", "SHUN", "SHUT", "SICK", "SIDE", "SIFT", "SIGH", "SIGN",
    "SILK", "SILL", "SILO", "SILT", "SINE", "SING", "SINK", "SIRE",
    "SITE", "SITS", "SITU", "SKAT", "SKEW", "SKID", "SKIM", "SKIN",
    "SKIT", "SLAB", "SLAM", "SLAT", "SLAY", "SLED", "SLEW", "SLID",
    "SLIM", "SLIT", "SLOB", "SLOG", "SLOT", "SLOW", "SLUG", "SLUM",
    "SLUR", "SMOG", "SMUG", "SNAG", "SNOB", "SNOW", "SNUB", "SNUG",
    "SOAK", "SOAR", "SOCK", "SODA", "SOFA", "SOFT", "SOIL", "SOLD",
    "SOME", "SONG", "SOON", "SOOT", "SORE", "SORT", "SOUL", "SOUR",
    "SOWN", "STAB", "STAG", "STAN", "STAR", "STAY", "STEM", "STEW",
    "STIR", "STOW", "STUB", "STUN", "SUCH", "SUDS", "SUIT", "SULK",
    "SUMS", "SUNG", "SUNK", "SURE", "SURF", "SWAB", "SWAG", "SWAM",
    "SWAN", "SWAT", "SWAY", "SWIM", "SWUM", "TACK", "TACT", "TAIL",
    "TAKE", "TALE", "TALK", "TALL", "TANK", "TASK", "TATE", "TAUT",
    "TEAL", "TEAM", "TEAR", "TECH", "TEEM", "TEEN", "TEET", "TELL",
    "TEND", "TENT", "TERM", "TERN", "TESS", "TEST", "THAN", "THAT",
    "THEE", "THEM", "THEN", "THEY", "THIN", "THIS", "THUD", "THUG",
    "TICK", "TIDE", "TIDY", "TIED", "TIER", "TILE", "TILL", "TILT",
    "TIME", "TINA", "TINE", "TINT", "TINY", "TIRE", "TOAD", "TOGO",
    "TOIL", "TOLD", "TOLL", "TONE", "TONG", "TONY", "TOOK", "TOOL",
    "TOOT", "TORE", "TORN", "TOTE", "TOUR", "TOUT", "TOWN", "TRAG",
    "TRAM", "TRAY", "TREE", "TREK", "TRIG", "TRIM", "TRIO", "TROD",
    "TROT", "TROY", "TRUE", "TUBA", "TUBE", "TUCK", "TUFT", "TUNA",
    "TUNE", "TUNG", "TURF", "TURN", "TUSK", "TWIG", "TWIN", "TWIT",
    "ULAN", "UNIT", "URGE", "USED", "USER", "USES", "UTAH", "VAIL",
    "VAIN", "VALE", "VARY", "VASE", "VAST", "VEAL", "VEDA", "VEIL",
    "VEIN", "VEND", "VENT", "VERB", "VERY", "VETO", "VICE", "VIEW",
    "VINE", "VISE", "VOID", "VOLT", "VOTE", "WACK", "WADE", "WAGE",
    "WAIL", "WAIT", "WAKE", "WALE", "WALK", "WALL", "WALT", "WAND",
    "WANE", "WANG", "WANT", "WARD", "WARM", "WARN", "WART", "WASH",
    "WAST", "WATS", "WATT", "WAVE", "WAVY", "WAYS", "WEAK", "WEAL",
    "WEAN", "WEAR", "WEED", "WEEK", "WEIR", "WELD", "WELL", "WELT",
    "WENT", "WERE", "WERT", "WEST", "WHAM", "WHAT", "WHEE", "WHEN",
    "WHET", "WHOA", "WHOM", "WICK", "WIFE", "WILD", "WILL", "WIND",
    "WINE", "WING", "WINK", "WINO", "WIRE", "WISE", "WISH", "WITH",
    "WOLF", "WONT", "WOOD", "WOOL", "WORD", "WORE", "WORK", "WORM",
    "WORN", "WOVE", "WRIT", "WYNN", "YALE", "YANG", "YANK", "YARD",
    "YARN", "YAWL", "YAWN", "YEAH", "YEAR", "YELL", "YOGA", "YOKE"
  >>

DictLen == Len(STANDARD_DICTIONARY)

DictWords == {STANDARD_DICTIONARY[i] : i \in 1..DictLen}

\* STANDARD_DICTIONARY.iter().position(|w| *w == word): the first matching
\* index, tabulated once per dictionary word
DictPosition ==
  [w \in DictWords |->
     LET hits == {i \in 1..DictLen : STANDARD_DICTIONARY[i] = w}
     IN (CHOOSE i \in hits : \A j \in hits : i <= j) - 1]

\* an unknown word taken for the first entry
position_or_first(word) ==
  IF word \in DOMAIN DictPosition THEN Some(DictPosition[word]) ELSE Some(0)

position(word) ==
  IF word \in DOMAIN DictPosition THEN Some(DictPosition[word]) ELSE None

(***************************************************************************)
(* Fold engine.                                                            *)
(***************************************************************************)
\* input[j] = input[i]
assign(input, j, i) == [input EXCEPT ![j + 1] = input[i + 1]]

\* input[j] ^= input[i]
xor_assign(input, j, i) ==
  [input EXCEPT ![j + 1] = BitXor(input[j + 1], input[i + 1])]

\* fold_md: let mut j = 0;
\* for i in 8..input.len() { input[j] ^= input[i]; j = (j + 1) % 8 }
\* The iterations lo..hi-1 are run in order; a range is split in two so that
\* the evaluation does not nest once per iteration.
fold_md(input) ==
  LET step(st, i) ==
        [buf |-> xor_assign(st.buf, st.j, i), j |-> (st.j + 1) % 8]
      RECURSIVE run(_, _, _)
      run(st, lo, hi) ==
        IF lo >= hi THEN st
        ELSE IF hi - lo = 1 THEN step(st, lo)
        ELSE LET mid == (lo + hi) \div 2
                 left == run(st, lo, mid)
             \* j stays below 8; testing it has the first half evaluated
             \* before the second half starts
             IN IF left.j < 8 THEN run(left, mid, hi) ELSE left
  IN run([buf |-> input, j |-> 0], 8, Len(input)).buf

\* <[u8]>::swap(a, b), 0-based
swap(buf, a, b) == [buf EXCEPT ![a + 1] = buf[b + 1], ![b + 1] = buf[a + 1]]

\* the fold without the four swaps
fold_sha1_without_swaps(digest) == fold_md(digest)

fold_sha1(digest) ==
  swap(swap(swap(swap(fold_md(digest), 0, 3), 1, 2), 4, 7), 5, 6)

(***************************************************************************)
(* Checksum and word codec.                                                *)
(***************************************************************************)
\* a wrong mask in the last term of the per-byte closure
byte_groups_shift4(n) ==
  <<BitAnd(n, 3), Shr8(BitAnd(n, 12), 2), Shr8(BitAnd(n, 48), 4),
    Shr8(BitAnd(n, 192), 4)>>

\* the four terms of the closure of calculate_checksum:
\* n & 0b11, (n & 0b1100) >> 2, (n & 0b110000) >> 4, (n & 0b11000000) >> 6
byte_groups(n) ==
  <<BitAnd(n, 3), Shr8(BitAnd(n, 12), 2), Shr8(BitAnd(n, 48), 4),
    Shr8(BitAnd(n, 192), 6)>>

\* the closure of calculate_checksum: the terms added in u8, then .into()
checksum_of_byte(n) ==
  LET g == byte_groups(n)
  IN Add8(Add8(Add8(g[1], g[2]), g[3]), g[4])

calculate_checksum(input) ==
  LET RECURSIVE reduce(_, _)
      reduce(acc, k) ==
        IF k > Len(input) THEN acc
        ELSE reduce(acc + checksum_of_byte(input[k]), k + 1)
  IN U64ToNat(U64And(U64FromNat(reduce(checksum_of_byte(input[1]), 2)),
                     U64FromNat(3)))

\* 0b11111111111 << (64 - 11)
Mask11 == U64Shl(U64FromNat(2047), 64 - 11)

\* the mask applied but the shift one bit short
top11_shift52(result) == U64Shr(U64And(result, Mask11), 64 - 12)

\* (result & (0b11111111111 << (64 - 11))) >> (64 - 11)
top11(result) == U64Shr(U64And(result, Mask11), 64 - 11)

\* the six values `bits` that convert_to_word_format indexes the dictionary
\* with
word_bits(bytes) ==
  LET checksum == calculate_checksum(bytes)
      RECURSIVE go(_, _, _)
      go(result, i, out) ==
        IF i >= 5
        THEN Append(out, U64ToNat(U64Add(top11(result), U64FromNat(checksum))))
        ELSE go(U64Shl(result, 11), i + 1, Append(out, U64ToNat(top11(result))))
  IN go(U64FromBeBytes(bytes), 0, <<>>)

\* STANDARD_DICTIONARY[bits as usize] panics when the index is out of range
convert_to_word_format(bytes) ==
  LET bits == word_bits(bytes)
  IN IF \A i \in 1..6 : bits[i] < DictLen
     THEN Some([i \in 1..6 |-> STANDARD_DICTIONARY[bits[i] + 1]])
     ELSE Panic("index out of bounds")

\* the sixth index merged without dropping its checksum bits
last_word_keep_checksum(output, bits) ==
  U64Or(U64Shl(output, 9), U64FromNat(bits))

\* output <<= 9; output |= bits as u64 / 4
last_word(output, bits) ==
  U64Or(U64Shl(output, 9), U64FromNat(bits \div 4))

\* the lowest bit alone taken for the checksum bits
low_bit(bits) == bits % 2

\* bits as u64 % 4
low_two_bits(bits) == bits % 4

decode_word_format_with_std_dict(input) ==
  LET RECURSIVE first5(_, _)
      first5(output, k) ==
        IF k > 5 THEN Some(output)
        ELSE LET bits == position(input[k])
             IN IF IsNone(bits) THEN None
                ELSE first5(U64Or(U64Shl(output, 11), U64FromNat(bits.val)),
                            k + 1)
      acc == first5(U64Zero, 1)
  IN IF IsNone(acc) THEN None
     ELSE LET bits == position(input[6])
          IN IF IsNone(bits) THEN None
             ELSE LET output == U64ToBeBytes(last_word(acc.val, bits.val))
                      checksum_bits == low_two_bits(bits.val)
                  IN Some(<<output, checksum_bits = calculate_checksum(output)>>)

(***************************************************************************)
(* Hash primitives.  The digests are supplied by other crates (md4, md5,   *)
(* sha1_smol, digest); here a digest is a deterministic function of the    *)
(* algorithm and of all the bytes fed since the last finalisation, of the  *)
(* algorithm's native output size.                                         *)
(***************************************************************************)
\* the bytes of a digest: the input is absorbed in blocks of 8 bytes into
\* an accumulator, which is then spread over `size` bytes
Digest(salt, size, data) ==
  LET byte(k) == IF k <= Len(data) THEN data[k] + 1 ELSE 0
      block(b) == (2 * byte(b + 1)) + (3 * byte(b + 2)) + (5 * byte(b + 3))
                  + (7 * byte(b + 4)) + (11 * byte(b + 5)) + (13 * byte(b + 6))
                  + (17 * byte(b + 7)) + (19 * byte(b + 8))
      RECURSIVE absorb(_)
      absorb(n) ==
        IF n = 0 THEN salt + Len(data)
        ELSE ((absorb(n - 1) * 31) + block(8 * (n - 1))) % 65521
      state == absorb((Len(data) + 7) \div 8)
      mix(i) == ((state * 251) + (i * 7919)) % 32749
  IN [i \in 1..size |-> ((((mix(i) * mix(i)) + i) % 32749) \div 3) % 256] \o <<>>

\* Md4::new(), update(..), finalize(): 16 bytes
md4_digest(data) == Digest(4, 16, data)

\* md5::compute(..).0: 16 bytes
md5_compute(data) == Digest(5, 16, data)

\* sha1_smol::Sha1::new(), update(..), digest().bytes(): 20 bytes
sha1_digest(data) == Digest(1, 20, data)

\* a Box<dyn digest::DynDigest>: its algorithm, its output_size() and the
\* bytes fed since it was created or last reset
Hasher(salt, size) == [salt |-> salt, size |-> size, buf |-> <<>>]

\* DynDigest::update
update(hasher, data) == [hasher EXCEPT !.buf = hasher.buf \o data]

\* DynDigest::finalize_into_reset(out): Err(InvalidBufferSize) unless the
\* buffer is exactly output_size() long; otherwise the digest is written and
\* the hasher reset
finalize_into_reset(hasher, out) ==
  IF Len(out) # hasher.size
  THEN [ok |-> FALSE, hasher |-> hasher, out |-> out]
  ELSE [ok |-> TRUE,
        hasher |-> [hasher EXCEPT !.buf = <<>>],
        out |-> Digest(hasher.salt, hasher.size, hasher.buf)]

(***************************************************************************)
(* Iterated OTP engine.                                                    *)
(***************************************************************************)
\* &buf[from..to], 0-based and exclusive of `to`
Slice(buf, from, to) == SubSeq(buf, from + 1, to)

\* the previous hash handed on whole
prev_hash_whole(prev_hash) == prev_hash

\* &prev_hash[0..8], the bytes a built-in routine feeds to the next hash
prev_hash_0_8(prev_hash) == Slice(prev_hash, 0, 8)

\* [prev_hash[0], .., prev_hash[7]]
first_8(prev_hash) == <<prev_hash[1], prev_hash[2], prev_hash[3], prev_hash[4],
                        prev_hash[5], prev_hash[6], prev_hash[7], prev_hash[8]>>

calculate_md4_otp(passphrase, lowercased_seed, n) ==
  LET RECURSIVE loop(_, _)
      loop(prev_hash, i) ==
        IF i >= n THEN prev_hash
        ELSE loop(fold_md(md4_digest(prev_hash_0_8(prev_hash))), i + 1)
  IN Some(first_8(loop(fold_md(md4_digest(lowercased_seed \o passphrase)), 0)))

calculate_md5_otp(passphrase, lowercased_seed, n) ==
  LET RECURSIVE loop(_, _)
      loop(prev_hash, i) ==
        IF i >= n THEN prev_hash
        ELSE loop(fold_md(md5_compute(prev_hash_0_8(prev_hash))), i + 1)
  IN Some(first_8(loop(fold_md(md5_compute(lowercased_seed \o passphrase)), 0)))

calculate_sha1_otp(passphrase, lowercased_seed, n) ==
  LET RECURSIVE loop(_, _)
      loop(prev_hash, i) ==
        IF i >= n THEN prev_hash
        ELSE loop(fold_sha1(sha1_digest(prev_hash_0_8(prev_hash))), i + 1)
  IN Some(first_8(loop(fold_sha1(sha1_digest(lowercased_seed \o passphrase)), 0)))

\* [0; 64]
Zeroes64 ==
  LET z8 == <<0, 0, 0, 0, 0, 0, 0, 0>>
  IN z8 \o z8 \o z8 \o z8 \o z8 \o z8 \o z8 \o z8

\* fold_md(&mut digest_bytes[0..n]): the fold applied to a prefix in place
fold_md_prefix(digest_bytes, n) ==
  fold_md(Slice(digest_bytes, 0, n)) \o Slice(digest_bytes, n, Len(digest_bytes))

\* calculate_otp_via_digest: the value returned, or the panic of
\* .expect("hash size too large") or of a slice out of range
calculate_otp_via_digest(hasher, passphrase, lowercased_seed, n) ==
  LET RECURSIVE loop(_, _, _)
      loop(h, prev_hash, i) ==
        IF i >= n THEN Some(first_8(prev_hash))
        ELSE IF h.size > Len(prev_hash) THEN Panic("range end index out of range")
        ELSE LET r == finalize_into_reset(
                        update(h, Slice(prev_hash, 0, h.size)), Zeroes64)
             IN IF ~r.ok THEN Panic("hash size too large")
                ELSE loop(r.hasher, fold_md_prefix(r.out, r.hasher.size), i + 1)
      first == finalize_into_reset(
                 update(update(hasher, lowercased_seed), passphrase), Zeroes64)
  IN IF ~first.ok THEN Panic("hash size too large")
     ELSE loop(first.hasher, fold_md(first.out), 0)

\* str::to_lowercase: the capital letters of Latin-1 (C3 80 .. C3 9E) are
\* lower-cased too
to_lowercase(s) ==
  LET RECURSIVE go(_)
      go(i) ==
        IF i = 0 THEN <<>>
        ELSE Append(go(i - 1),
               IF s[i] \in 65..90 \/ (i > 1 /\ s[i - 1] = 195 /\ s[i] \in 128..158)
               THEN s[i] + 32 ELSE s[i])
  IN go(Len(s))

\* u8::to_ascii_lowercase: self | ((is_ascii_uppercase as u8) * 0x20)
to_ascii_lowercase(b) == IF b \in 65..90 THEN BitOr(b, 32) ELSE b

\* str::cow_to_ascii_lowercase: u8::to_ascii_lowercase on every byte
cow_to_ascii_lowercase(s) ==
  LET RECURSIVE go(_)
      go(i) == IF i = 0 THEN <<>> ELSE Append(go(i - 1), to_ascii_lowercase(s[i]))
  IN go(Len(s))

\* the arm of `match hash_alg` taken when names are compared ignoring case
match_arm_ignore_case(name) ==
  CASE name \in {"md4", "MD4"} -> "md4"
    [] name \in {"md5", "MD5"} -> "md5"
    [] name \in {"sha1", "SHA1"} -> "sha1"
    [] OTHER -> "_"

\* the arm of `match hash_alg` that is taken
match_arm(name) ==
  CASE name = "md4" -> "md4"
    [] name = "md5" -> "md5"
    [] name = "sha1" -> "sha1"
    [] OTHER -> "_"

\* maybe_get_digest is None, or Some of a function from names to digests,
\* given by the names it knows; get_digest(name)
get_digest(known, name) ==
  IF name \in DOMAIN known THEN Some(known[name]) ELSE None

\* calculate_otp: what it returns (or its panic), and the names it asked
\* the registry for
calculate_otp(name, passphrase, seed_text, n, maybe_get_digest) ==
  LET lowercased_seed == cow_to_ascii_lowercase(seed_text)
      arm == match_arm(name)
  IN CASE arm = "md4" ->
            [result |-> calculate_md4_otp(passphrase, lowercased_seed, n),
             asked |-> <<>>]
       [] arm = "md5" ->
            [result |-> calculate_md5_otp(passphrase, lowercased_seed, n),
             asked |-> <<>>]
       [] arm = "sha1" ->
            [result |-> calculate_sha1_otp(passphrase, lowercased_seed, n),
             asked |-> <<>>]
       [] OTHER ->
            IF IsNone(maybe_get_digest) THEN [result |-> None, asked |-> <<>>]
            ELSE LET digest == get_digest(maybe_get_digest.val, name)
                 IN IF IsNone(digest) THEN [result |-> None, asked |-> <<name>>]
                    ELSE [result |->
                            calculate_otp_via_digest(digest.val, passphrase,
                                                     lowercased_seed, n),
                          asked |-> <<name>>]

(***************************************************************************)
(* Challenge parser.                                                       *)
(***************************************************************************)
\* the space alone
is_space(b) == b = 32

\* u8::is_ascii_whitespace: space, tab, line feed, form feed, carriage return
is_ascii_whitespace(b) == b \in {32, 9, 10, 12, 13}

\* str::split_ascii_whitespace, collected: the text is cut at every
\* whitespace byte and the empty pieces are dropped
split_ascii_whitespace(x) ==
  LET cuts == {i \in 1..Len(x) : is_ascii_whitespace(x[i])}
      \* the first cut at or after i, or the end of the text
      stop(i) ==
        LET ahead == {c \in cuts : c >= i}
        IN IF ahead = {} THEN Len(x) + 1
           ELSE CHOOSE c \in ahead : \A e \in ahead : c <= e
      RECURSIVE tokens(_)
      tokens(i) ==
        IF i > Len(x) THEN <<>>
        ELSE IF stop(i) = i THEN tokens(i + 1)
        ELSE <<SubSeq(x, i, stop(i) - 1)>> \o tokens(stop(i) + 1)
  IN tokens(1)

\* str::starts_with
starts_with(s, prefix) ==
  Len(s) >= Len(prefix) /\ SubSeq(s, 1, Len(prefix)) = prefix

\* &s[n..]
SliceFrom(s, n) == SubSeq(s, n + 1, Len(s))

\* "otp-"
OtpPrefix == <<111, 116, 112, 45>>

\* usize::MAX on a 64-bit target, as decimal digits
UsizeMaxDigits ==
  <<1, 8, 4, 4, 6, 7, 4, 4, 0, 7, 3, 7, 0, 9, 5, 5, 1, 6, 1, 5>>

\* a < b for two digit sequences of the same length
DigitsLess(a, b) ==
  \E k \in 1..Len(a) :
    /\ a[k] < b[k]
    /\ \A j \in 1..(k - 1) : a[j] = b[j]

\* a usize is held as its decimal digits without leading zeros (<<0>> for
\* zero); this is where checked_mul / checked_add report an overflow
ExceedsUsize(digits) ==
  \/ Len(digits) > Len(UsizeMaxDigits)
  \/ /\ Len(digits) = Len(UsizeMaxDigits)
     /\ DigitsLess(UsizeMaxDigits, digits)

\* usize::from_str_radix(src, 10).ok(): empty input and a lone sign are
\* errors, one leading '+' is skipped, then every byte must be a digit and
\* result * 10 + digit must not overflow
from_str_radix_10(src) ==
  LET RECURSIVE go(_, _, _)
      go(digits, k, result) ==
        IF k > Len(digits) THEN Some(result)
        ELSE IF digits[k] \notin 48..57 THEN None
        ELSE LET d == digits[k] - 48
                 next == IF result = <<0>> THEN <<d>> ELSE Append(result, d)
             IN IF ExceedsUsize(next) THEN None ELSE go(digits, k + 1, next)
  IN IF src = <<>> THEN None
     ELSE IF src[1] \in {43, 45} /\ Len(src) = 1 THEN None
     ELSE IF src[1] = 43 THEN go(Tail(src), 1, <<0>>)
     ELSE go(src, 1, <<0>>)

OTPChallenge(alg_token, n, seed_token) ==
  [hash_alg |-> alg_token, hash_count |-> n, seed |-> seed_token]

parse_otp_challenge(s) ==
  IF Len(s) < 9 THEN None
  ELSE IF Len(s) > 128 THEN None
  ELSE IF ~starts_with(s, OtpPrefix) THEN None
  ELSE
    LET tokens == split_ascii_whitespace(SliceFrom(s, 4))
        RECURSIVE go(_, _, _, _)
        go(k, alg_token, n, seed_token) ==
          IF k > Len(tokens)
          THEN IF IsNone(alg_token) \/ IsNone(seed_token) \/ IsNone(n) THEN None
               ELSE Some(OTPChallenge(alg_token.val, n.val, seed_token.val))
          ELSE IF IsNone(alg_token) THEN go(k + 1, Some(tokens[k]), n, seed_token)
          ELSE IF IsNone(n)
          THEN LET parsed == from_str_radix_10(tokens[k])
               IN IF IsNone(parsed) THEN None
                  ELSE go(k + 1, alg_token, parsed, seed_token)
          ELSE IF IsNone(seed_token)
          THEN go(Len(tokens) + 1, alg_token, n, Some(tokens[k]))
          ELSE go(k + 1, alg_token, n, seed_token)
    IN go(1, None, None, None)

(***************************************************************************)
(* Response parser.                                                        *)
(***************************************************************************)
\* str::cow_replace(from, ""): every occurrence of the byte `from` removed
cow_replace(s, from) ==
  LET keep(b) == b # from
  IN SelectSeq(s, keep)

\* str::split(sep), collected: the pieces between the occurrences of the
\* byte sep, empty pieces included; a text without sep is one piece
split(s, sep) ==
  LET cuts == {i \in 1..Len(s) : s[i] = sep}
      \* the k-th occurrence of sep; 0 before the first, Len(s) + 1 after the last
      cut(k) ==
        IF k = 0 THEN 0
        ELSE IF k > Cardinality(cuts) THEN Len(s) + 1
        ELSE CHOOSE c \in cuts : Cardinality({d \in cuts : d < c}) = k - 1
  IN [k \in 1..(Cardinality(cuts) + 1) |-> SubSeq(s, cut(k - 1) + 1, cut(k) - 1)] \o <<>>

\* hex::val: the value of a hexadecimal digit of either case, -1 standing
\* for Err(InvalidHexCharacter)
val(c) ==
  IF c \in 65..70 THEN (c - 65) + 10
  ELSE IF c \in 97..102 THEN (c - 97) + 10
  ELSE IF c \in 48..57 THEN c - 48
  ELSE -1

\* <[u8; 8]>::from_hex(data).ok(): OddLength, InvalidStringLength and
\* InvalidHexCharacter are None; byte i is val(data[2i]) << 4 | val(data[2i+1])
from_hex(data) ==
  IF Len(data) % 2 # 0 THEN None
  ELSE IF Len(data) \div 2 # 8 THEN None
  ELSE IF \E i \in 1..Len(data) : val(data[i]) = -1 THEN None
  ELSE Some([i \in 1..8 |-> BitOr(val(data[(2 * i) - 1]) * 16, val(data[2 * i]))] \o <<>>)

HexOrWords_Hex(h) == [kind |-> "Hex", hex |-> h]

HexOrWords_Words(w) == [kind |-> "Words", words |-> w]

\* a &str token as the dictionary writes its words: the ASCII letters and
\* digits as they are, any other byte as "?", which no dictionary word holds
UpperLetters ==
  <<"A", "B", "C", "D", "E", "F", "G", "H", "I", "J", "K", "L", "M",
    "N", "O", "P", "Q", "R", "S", "T", "U", "V", "W", "X", "Y", "Z">>

LowerLetters ==
  <<"a", "b", "c", "d", "e", "f", "g", "h", "i", "j", "k", "l", "m",
    "n", "o", "p", "q", "r", "s", "t", "u", "v", "w", "x", "y", "z">>

DecimalDigits == <<"0", "1", "2", "3", "4", "5", "6", "7", "8", "9">>

as_char(b) ==
  IF b \in 65..90 THEN UpperLetters[b - 64]
  ELSE IF b \in 97..122 THEN LowerLetters[b - 96]
  ELSE IF b \in 48..57 THEN DecimalDigits[b - 47]
  ELSE "?"

RECURSIVE as_str(_)
as_str(token) ==
  IF token = <<>> THEN "" ELSE as_char(Head(token)) \o as_str(Tail(token))

\* a sentence whose checksum does not match let through
checksum_ignored(valid_checksum) == FALSE

\* if !valid_checksum { return None; }
checksum_rejected(valid_checksum) == ~valid_checksum

\* HexOrWords::try_into_bytes: w.next() six times, then once more
try_into_bytes(self) ==
  IF self.kind = "Hex" THEN Some(self.hex)
  ELSE LET w == split_ascii_whitespace(self.words)
       IN IF Len(w) < 6 THEN None
          ELSE IF Len(w) > 6 THEN None
          ELSE LET six_words == [i \in 1..6 |-> as_str(w[i])] \o <<>>
                   maybe_64bits == decode_word_format_with_std_dict(six_words)
               IN IF IsNone(maybe_64bits) THEN None
                  ELSE IF checksum_rejected(maybe_64bits.val[2]) THEN None
                  ELSE Some(maybe_64bits.val[1])

OTPInit(current_otp, new_otp, new_alg, new_seq_num, new_seed) ==
  [current_otp |-> current_otp, new_otp |-> new_otp, new_alg |-> new_alg,
   new_seq_num |-> new_seq_num, new_seed |-> new_seed]

OTPResponse_Init(i) == [kind |-> "Init", init |-> i]

OTPResponse_Current(h) == [kind |-> "Current", current |-> h]

\* the spaces removed but the tabs kept
strip_spaces_only(s) == cow_replace(s, 32)

\* .cow_replace(" ", "") and then .cow_replace("\t", "")
strip_spaces_and_tabs(s) == cow_replace(cow_replace(s, 32), 9)

\* the part of parse_otp_init_hex and parse_otp_init_word they share: the
\* three sections, and algorithm, sequence number and seed of the middle one
init_sections(s) ==
  LET sections == split(s, 58)
  IN IF Len(sections) < 3 THEN None
     ELSE IF Len(sections) > 3 THEN None
     ELSE Some(sections)

init_params(new_params) ==
  LET params == split(new_params, 32)
  IN IF Len(params) < 3 THEN None
     ELSE LET sequence_number == from_str_radix_10(params[2])
          IN IF IsNone(sequence_number) THEN None
             ELSE Some([algorithm |-> params[1],
                        sequence_number |-> sequence_number.val,
                        seed |-> params[3]])

parse_otp_init_hex(s) ==
  LET sections == init_sections(s)
  IN IF IsNone(sections) THEN None
     ELSE LET current_otp == from_hex(strip_spaces_and_tabs(sections.val[1]))
              new_otp == from_hex(strip_spaces_and_tabs(sections.val[3]))
              params == init_params(sections.val[2])
          IN IF IsNone(current_otp) \/ IsNone(new_otp) \/ IsNone(params) THEN None
             ELSE Some(OTPInit(HexOrWords_Hex(current_otp.val),
                               HexOrWords_Hex(new_otp.val),
                               params.val.algorithm,
                               params.val.sequence_number,
                               params.val.seed))

parse_otp_init_word(s) ==
  LET sections == init_sections(s)
  IN IF IsNone(sections) THEN None
     ELSE LET params == init_params(sections.val[2])
          IN IF IsNone(params) THEN None
             ELSE Some(OTPInit(HexOrWords_Words(sections.val[1]),
                               HexOrWords_Words(sections.val[3]),
                               params.val.algorithm,
                               params.val.sequence_number,
                               params.val.seed))

\* "hex:", "word:", "init-hex:", "init-word:"
HexPrefix == <<104, 101, 120, 58>>

WordPrefix == <<119, 111, 114, 100, 58>>

InitHexPrefix == <<105, 110, 105, 116, 45, 104, 101, 120, 58>>

InitWordPrefix == <<105, 110, 105, 116, 45, 119, 111, 114, 100, 58>>

parse_otp_init(s) ==
  IF Len(s) <= 50 \/ Len(s) > 100 THEN None
  ELSE IF starts_with(s, InitHexPrefix) THEN parse_otp_init_hex(SliceFrom(s, 9))
  ELSE IF starts_with(s, InitWordPrefix) THEN parse_otp_init_word(SliceFrom(s, 10))
  ELSE None

\* a length test that lets a string of 19 bytes through
response_length_from_19(s) == Len(s) < 19 \/ Len(s) > 100

\* s.len() < 20 || s.len() > 100
response_length_out_of_bounds(s) == Len(s) < 20 \/ Len(s) > 100

\* the remainder with the colon of the prefix left in
words_after_4(s) == SliceFrom(s, 4)

\* &s[5..]
words_after_5(s) == SliceFrom(s, 5)

\* Option::map(|i| OTPResponse::Init(i))
map_Init(o) == IF IsNone(o) THEN None ELSE Some(OTPResponse_Init(o.val))

parse_otp_response(s) ==
  IF response_length_out_of_bounds(s) THEN None
  ELSE IF starts_with(s, HexPrefix)
  THEN LET h == from_hex(strip_spaces_and_tabs(SliceFrom(s, 4)))
       IN IF IsNone(h) THEN None
          ELSE Some(OTPResponse_Current(HexOrWords_Hex(h.val)))
  ELSE IF starts_with(s, WordPrefix)
  THEN Some(OTPResponse_Current(HexOrWords_Words(words_after_5(s))))
  ELSE IF starts_with(s, InitHexPrefix)
  THEN map_Init(parse_otp_init_hex(SliceFrom(s, 9)))
  ELSE IF starts_with(s, InitWordPrefix)
  THEN map_Init(parse_otp_init_word(SliceFrom(s, 10)))
  ELSE None

(***************************************************************************)
(* State: the inputs and results of a caller of the crate.                 *)
(***************************************************************************)
VARIABLES
  pc,         \* position of the caller: which call has returned
  value,      \* codec: the 8-byte value handed to convert_to_word_format
  checksum,   \* codec: calculate_checksum(value)
  bits,       \* codec: the six dictionary indices the encoder used
  words,      \* codec: what convert_to_word_format returned
  dwords,     \* codec: the six words handed to decode_word_format_with_std_dict
  decoded,    \* codec: what decode_word_format_with_std_dict returned
  alg,        \* engine: hash_alg
  pass,       \* engine: passphrase
  seed,       \* engine: seed
  count,      \* engine: count
  registry,   \* engine: maybe_get_digest
  otp,        \* engine: what calculate_otp returned, or its panic
  asked,      \* engine: the names get_digest was called with
  buf,        \* fold: the buffer handed to fold_md
  folded,     \* fold: the buffer when fold_md has returned
  text,       \* parser: the challenge string
  pieces,     \* parser: how many pieces follow the prefix in text
  challenge,  \* parser: what parse_otp_challenge returned
  response,   \* parser: what parse_otp_response returned
  otpinit,    \* parser: what parse_otp_init returned
  hasher,     \* adapter: the dyn DynDigest calculate_otp_via_digest is given
  digest_bytes, \* adapter: the 64-byte buffer of calculate_otp_via_digest
  prev_hash,  \* adapter: the previous folded buffer
  iter,       \* adapter: iterations of the loop completed
  ops,        \* adapter: the calls made on the hasher so far, in order
  hex_or_words, \* converter: the HexOrWords try_into_bytes is called on
  into_bytes  \* converter: what try_into_bytes returned

codec_vars == <<value, checksum, bits, words, dwords, decoded>>

engine_vars == <<alg, pass, seed, count, registry, otp, asked, buf, folded>>

parser_vars == <<text, pieces, challenge, response, otpinit>>

adapter_vars == <<hasher, digest_bytes, prev_hash, iter, ops>>

converter_vars == <<hex_or_words, into_bytes>>

vars ==
  <<pc, codec_vars, engine_vars, parser_vars, adapter_vars, converter_vars>>

CodecIdle ==
  /\ value = <<>>
  /\ checksum = 0
  /\ bits = <<>>
  /\ words = None
  /\ dwords = <<>>
  /\ decoded = None

EngineIdle ==
  /\ alg = ""
  /\ pass = <<>>
  /\ seed = <<>>
  /\ count = 0
  /\ registry = None
  /\ otp = None
  /\ asked = <<>>
  /\ buf = <<>>
  /\ folded = None

ParserIdle ==
  /\ text = <<>>
  /\ pieces = 0
  /\ challenge = None
  /\ response = None
  /\ otpinit = None

AdapterIdle ==
  /\ hasher = None
  /\ digest_bytes = <<>>
  /\ prev_hash = <<>>
  /\ iter = 0
  /\ ops = <<>>

ConverterIdle ==
  /\ hex_or_words = None
  /\ into_bytes = None

(***************************************************************************)
(* The word codec: encode a value, then decode six words.                  *)
(***************************************************************************)
\* two OTP values of the crate's test tables
BaseValues ==
  { <<158, 135, 97, 52, 217, 4, 153, 221>>,
    <<79, 41, 106, 116, 254, 21, 103, 236>> }

\* all-zero and all-ones
ExtremeValues ==
  { <<0, 0, 0, 0, 0, 0, 0, 0>>,
    <<255, 255, 255, 255, 255, 255, 255, 255>> }

\* the extreme values, and a base value with one byte replaced by any byte
CodecInputs ==
  ExtremeValues
    \cup {[b EXCEPT ![k] = x] : b \in BaseValues, k \in 1..8, x \in 0..255}

\* words that replace one word of an encoding before it is decoded
SampleWords == {"YOKE", "aura"}

\* the four dictionary words whose index has the upper 9 bits of the index
\* of the sixth word
SixthWords(w) ==
  {STANDARD_DICTIONARY[(4 * (DictPosition[w[6]] \div 4)) + j + 1] : j \in 0..3}

\* an encoding as it is, with one word replaced by a sample word, or with
\* its sixth word replaced by one that differs in the checksum bits only
DecodeInputs(w) ==
  {w} \cup {[w EXCEPT ![k] = x] : k \in 1..6, x \in SampleWords}
      \cup {[w EXCEPT ![6] = x] : x \in SixthWords(w)}

InitCodec ==
  /\ pc = "value"
  /\ value \in CodecInputs
  /\ checksum = 0
  /\ bits = <<>>
  /\ words = None
  /\ dwords = <<>>
  /\ decoded = None
  /\ EngineIdle
  /\ ParserIdle
  /\ AdapterIdle
  /\ ConverterIdle

Encode ==
  /\ pc = "value"
  /\ checksum' = calculate_checksum(value)
  /\ bits' = word_bits(value)
  /\ words' = convert_to_word_format(value)
  /\ pc' = "encoded"
  /\ UNCHANGED <<value, dwords, decoded, engine_vars, parser_vars, adapter_vars,
                 converter_vars>>

Decode ==
  /\ pc = "encoded"
  /\ IsSome(words)
  /\ \E w \in DecodeInputs(words.val) :
       /\ dwords' = w
       /\ decoded' = decode_word_format_with_std_dict(w)
  /\ pc' = "decoded"
  /\ UNCHANGED <<value, checksum, bits, words, engine_vars, parser_vars, adapter_vars,
                 converter_vars>>

NextCodec == Encode \/ Decode

SpecCodec == InitCodec /\ [][NextCodec]_vars

(***************************************************************************)
(* The engine: one call of calculate_otp.                                  *)
(***************************************************************************)
\* the byte strings of at most n characters drawn from chars
RECURSIVE Texts(_, _)
Texts(chars, n) ==
  IF n = 0 THEN {<<>>}
  ELSE LET shorter == Texts(chars, n - 1)
       IN shorter \cup {t \o c : t \in shorter, c \in chars}

\* "T", "t" and the two-byte "É" (C3 89)
SeedChars == {<<84>>, <<116>>, <<195, 137>>}

\* "A" and "a"
PassChars == {<<65>>, <<97>>}

Seeds == Texts(SeedChars, MaxSeedChars)

Passphrases == Texts(PassChars, MaxPassChars)

\* the names a caller asks for: the built-in ones, one in the wrong case,
\* and two that only a registry can resolve
AlgNames == {"md4", "md5", "sha1", "MD5", "sha512", "sha256"}

\* the digests of a caller's registry: 64-byte and 32-byte ones, and one
\* registered under a built-in name
KnownDigests ==
  [sha512 |-> Hasher(512, 64), sha256 |-> Hasher(256, 32), md5 |-> Hasher(5, 16)]

Registries == {None, Some(KnownDigests)}

InitEngine ==
  /\ pc = "input"
  /\ alg \in AlgNames
  /\ pass \in Passphrases
  /\ seed \in Seeds
  /\ count \in 0..MaxCount
  /\ registry \in Registries
  /\ otp = None
  /\ asked = <<>>
  /\ buf = <<>>
  /\ folded = None
  /\ CodecIdle
  /\ ParserIdle
  /\ AdapterIdle
  /\ ConverterIdle

Calculate ==
  /\ pc = "input"
  /\ LET call == calculate_otp(alg, pass, seed, count, registry)
     IN /\ otp' = call.result
        /\ asked' = call.asked
  /\ pc' = "done"
  /\ UNCHANGED <<alg, pass, seed, count, registry, buf, folded, codec_vars, parser_vars, adapter_vars,
                 converter_vars>>

NextEngine == Calculate

SpecEngine == InitEngine /\ [][NextEngine]_vars

(***************************************************************************)
(* The fold: one call of fold_md on a buffer.                              *)
(***************************************************************************)
\* the contents a buffer of one length is tried with
FoldSalts == 1..4

\* buffers of 0..MaxFoldLen bytes and of 64 bytes, filled as digests are
FoldInputs ==
  {Digest(salt, len, <<>>) : salt \in FoldSalts, len \in (0..MaxFoldLen) \cup {64}}

InitFold ==
  /\ pc = "buffer"
  /\ buf \in FoldInputs
  /\ folded = None
  /\ alg = ""
  /\ pass = <<>>
  /\ seed = <<>>
  /\ count = 0
  /\ registry = None
  /\ otp = None
  /\ asked = <<>>
  /\ CodecIdle
  /\ ParserIdle
  /\ AdapterIdle
  /\ ConverterIdle

\* fold_md never indexes out of range, so it always returns
Fold ==
  /\ pc = "buffer"
  /\ folded' = Some(fold_md(buf))
  /\ pc' = "folded"
  /\ UNCHANGED <<buf, alg, pass, seed, count, registry, otp, asked,
                 codec_vars, parser_vars, adapter_vars, converter_vars>>

NextFold == Fold

SpecFold == InitFold /\ [][NextFold]_vars

(***************************************************************************)
(* The generic path: one call of calculate_otp_via_digest, one step for    *)
(* each call it makes on the hasher.                                       *)
(***************************************************************************)
\* the digests calculate_otp hands over: those of a caller's registry
Adapters == {KnownDigests[name] : name \in DOMAIN KnownDigests}

\* the seeds calculate_otp hands over
LowercasedSeeds == {cow_to_ascii_lowercase(s) : s \in Seeds}

\* a call on the hasher as it is recorded: the bytes given to update, whether
\* the call succeeded, the digest a finalisation wrote, and the input the
\* hasher holds when the call has returned
Call(op, arg, ok, out, h) ==
  [op |-> op, arg |-> arg, ok |-> ok, out |-> out, pending |-> h.buf]

InitAdapter ==
  /\ pc = "entry"
  /\ hasher \in Adapters
  /\ pass \in Passphrases
  /\ seed \in LowercasedSeeds
  /\ count \in 0..MaxCount
  /\ digest_bytes = <<>>
  /\ prev_hash = <<>>
  /\ iter = 0
  /\ ops = <<>>
  /\ alg = ""
  /\ registry = None
  /\ otp = None
  /\ asked = <<>>
  /\ buf = <<>>
  /\ folded = None
  /\ CodecIdle
  /\ ParserIdle
  /\ ConverterIdle

\* hasher.update(seed.as_bytes())
UpdateSeed ==
  /\ pc = "entry"
  /\ hasher' = update(hasher, seed)
  /\ ops' = Append(ops, Call("update", seed, TRUE, <<>>, hasher'))
  /\ pc' = "seed_fed"
  /\ UNCHANGED <<digest_bytes, prev_hash, iter, alg, pass, seed, count,
                 registry, otp, asked, buf, folded, codec_vars, parser_vars,
                 converter_vars>>

\* hasher.update(passphrase.as_bytes())
UpdatePassphrase ==
  /\ pc = "seed_fed"
  /\ hasher' = update(hasher, pass)
  /\ ops' = Append(ops, Call("update", pass, TRUE, <<>>, hasher'))
  /\ pc' = "primed"
  /\ UNCHANGED <<digest_bytes, prev_hash, iter, alg, pass, seed, count,
                 registry, otp, asked, buf, folded, codec_vars, parser_vars,
                 converter_vars>>

\* the first finalize_into_reset(..).expect(..), fold_md(&mut digest_bytes)
\* and prev_hash = digest_bytes
FinalizeFirst ==
  /\ pc = "primed"
  /\ LET r == finalize_into_reset(hasher, Zeroes64)
     IN /\ hasher' = r.hasher
        /\ ops' = Append(ops, Call("finalize_into_reset", <<>>, r.ok,
                                   IF r.ok THEN r.out ELSE <<>>, r.hasher))
        /\ IF r.ok
           THEN /\ digest_bytes' = fold_md(r.out)
                /\ prev_hash' = fold_md(r.out)
                /\ otp' = otp
                /\ pc' = "loop"
           ELSE /\ digest_bytes' = r.out
                /\ prev_hash' = prev_hash
                /\ otp' = Panic("hash size too large")
                /\ pc' = "aborted"
  /\ UNCHANGED <<iter, alg, pass, seed, count, registry, asked, buf, folded,
                 codec_vars, parser_vars, converter_vars>>

\* for _ in 0..count: hasher.update(&prev_hash[0..hasher.output_size()])
UpdatePrevious ==
  /\ pc = "loop"
  /\ iter < count
  /\ IF hasher.size > Len(prev_hash)
     THEN /\ otp' = Panic("range end index out of range")
          /\ pc' = "aborted"
          /\ UNCHANGED <<hasher, ops>>
     ELSE /\ hasher' = update(hasher, Slice(prev_hash, 0, hasher.size))
          /\ ops' = Append(ops, Call("update", Slice(prev_hash, 0, hasher.size),
                                     TRUE, <<>>, hasher'))
          /\ otp' = otp
          /\ pc' = "fed"
  /\ UNCHANGED <<digest_bytes, prev_hash, iter, alg, pass, seed, count,
                 registry, asked, buf, folded, codec_vars, parser_vars,
                 converter_vars>>

\* the finalize_into_reset(..).expect(..) of the loop,
\* fold_md(&mut digest_bytes[0..hasher.output_size()]), prev_hash = digest_bytes
FinalizeIteration ==
  /\ pc = "fed"
  /\ LET r == finalize_into_reset(hasher, digest_bytes)
     IN /\ hasher' = r.hasher
        /\ ops' = Append(ops, Call("finalize_into_reset", <<>>, r.ok,
                                   IF r.ok THEN r.out ELSE <<>>, r.hasher))
        /\ IF r.ok
           THEN /\ digest_bytes' = fold_md_prefix(r.out, r.hasher.size)
                /\ prev_hash' = fold_md_prefix(r.out, r.hasher.size)
                /\ iter' = iter + 1
                /\ otp' = otp
                /\ pc' = "loop"
           ELSE /\ digest_bytes' = r.out
                /\ prev_hash' = prev_hash
                /\ iter' = iter
                /\ otp' = Panic("hash size too large")
                /\ pc' = "aborted"
  /\ UNCHANGED <<alg, pass, seed, count, registry, asked, buf, folded,
                 codec_vars, parser_vars, converter_vars>>

\* [prev_hash[0], .., prev_hash[7]]
Return ==
  /\ pc = "loop"
  /\ iter >= count
  /\ otp' = Some(first_8(prev_hash))
  /\ pc' = "returned"
  /\ UNCHANGED <<hasher, digest_bytes, prev_hash, iter, ops, alg, pass, seed,
                 count, registry, asked, buf, folded, codec_vars, parser_vars,
                 converter_vars>>

NextAdapter ==
  \/ UpdateSeed
  \/ UpdatePassphrase
  \/ FinalizeFirst
  \/ UpdatePrevious
  \/ FinalizeIteration
  \/ Return

SpecAdapter == InitAdapter /\ [][NextAdapter]_vars

(***************************************************************************)
(* The converter: one call of HexOrWords::try_into_bytes.                  *)
(***************************************************************************)
\* the bytes of the words a caller writes: dictionary words, and two that
\* the dictionary does not hold
as_bytes ==
  [A |-> <<65>>,
   AURA |-> <<65, 85, 82, 65>>,
   ALOE |-> <<65, 76, 79, 69>>,
   HURL |-> <<72, 85, 82, 76>>,
   WING |-> <<87, 73, 78, 71>>,
   BERG |-> <<66, 69, 82, 71>>,
   WAIL |-> <<87, 65, 73, 76>>,
   WAIT |-> <<87, 65, 73, 84>>,
   WAKE |-> <<87, 65, 75, 69>>,
   WALE |-> <<87, 65, 76, 69>>,
   BOND |-> <<66, 79, 78, 68>>,
   FOGY |-> <<70, 79, 71, 89>>,
   DRAB |-> <<68, 82, 65, 66>>,
   NE |-> <<78, 69>>,
   RISE |-> <<82, 73, 83, 69>>,
   MART |-> <<77, 65, 82, 84>>,
   aura |-> <<97, 117, 114, 97>>,
   YOKEL |-> <<89, 79, 75, 69, 76>>]

\* the sentences of two OTP values of the crate's tests and of the value 0
BaseSentences ==
  { <<"AURA", "ALOE", "HURL", "WING", "BERG", "WAIT">>,
    <<"BOND", "FOGY", "DRAB", "NE", "RISE", "MART">>,
    <<"A", "A", "A", "A", "A", "A">> }

\* the words that replace or follow the words of a sentence
OtherWords == {"WAIL", "WAKE", "WALE", "MART", "A", "aura", "YOKEL"}

\* k times the word "A"
RECURSIVE Padding(_)
Padding(k) == IF k = 0 THEN <<>> ELSE <<"A">> \o Padding(k - 1)

\* a sentence as it is, with one word replaced, cut short, or followed by
\* more words, up to MaxWords words
Sentences ==
  BaseSentences
    \cup {[b EXCEPT ![k] = x] : b \in BaseSentences, k \in 1..6, x \in OtherWords}
    \cup {SubSeq(b, 1, k) : b \in BaseSentences, k \in 0..5}
    \cup {b \o <<x>> \o Padding(k) :
            b \in BaseSentences, x \in OtherWords, k \in 0..(MaxWords - 7)}

\* what stands between two words: a space, a tab, or CR LF
Separators == {<<32>>, <<9>>, <<13, 10>>}

\* what stands before the first and after the last word
Margins == {<<>>, <<32>>}

\* the words written one after the other
RECURSIVE Written(_, _)
Written(sentence, sep) ==
  IF sentence = <<>> THEN <<>>
  ELSE IF Len(sentence) = 1 THEN as_bytes[sentence[1]]
  ELSE as_bytes[sentence[1]] \o sep \o Written(Tail(sentence), sep)

ConverterInputs ==
  {HexOrWords_Hex(h) : h \in BaseValues \cup ExtremeValues}
    \cup {HexOrWords_Words(m \o Written(sentence, sep) \o m) :
            sentence \in Sentences, sep \in Separators, m \in Margins}

InitConverter ==
  /\ pc = "given"
  /\ hex_or_words \in ConverterInputs
  /\ into_bytes = None
  /\ CodecIdle
  /\ EngineIdle
  /\ ParserIdle
  /\ AdapterIdle

TryIntoBytes ==
  /\ pc = "given"
  /\ into_bytes' = try_into_bytes(hex_or_words)
  /\ pc' = "converted"
  /\ UNCHANGED <<hex_or_words, codec_vars, engine_vars, parser_vars,
                 adapter_vars>>

NextConverter == TryIntoBytes

SpecConverter == InitConverter /\ [][NextConverter]_vars

(***************************************************************************)
(* The parser: a challenge string is put together, then parsed.            *)
(***************************************************************************)
\* "otp-" and "OTP-"
Prefixes == {OtpPrefix, <<79, 84, 80, 45>>}

\* 59 times "a" and a space
LongToken ==
  LET a10 == <<97, 97, 97, 97, 97, 97, 97, 97, 97, 97>>
  IN a10 \o a10 \o a10 \o a10 \o a10 \o <<97, 97, 97, 97, 97, 97, 97, 97, 97, 32>>

\* "md5 ", "07<tab>", "+7 ", "7é ", " ", "18446744073709551616 " (usize::MAX
\* plus one), and the long token
Pieces ==
  { <<109, 100, 53, 32>>,
    <<48, 55, 9>>,
    <<43, 55, 32>>,
    <<55, 195, 169, 32>>,
    <<32>>,
    <<49, 56, 52, 52, 54, 55, 52, 52, 48, 55, 51, 55, 48, 57, 53, 53, 49, 54,
      49, 54, 32>>,
    LongToken }

InitParser ==
  /\ pc = "building"
  /\ text \in Prefixes
  /\ pieces = 0
  /\ challenge = None
  /\ response = None
  /\ otpinit = None
  /\ CodecIdle
  /\ EngineIdle
  /\ AdapterIdle
  /\ ConverterIdle

AppendPiece ==
  /\ pc = "building"
  /\ pieces < MaxPieces
  /\ \E p \in Pieces : text' = text \o p
  /\ pieces' = pieces + 1
  /\ UNCHANGED <<pc, challenge, response, otpinit, codec_vars, engine_vars, adapter_vars,
                 converter_vars>>

ParseChallenge ==
  /\ pc = "building"
  /\ challenge' = parse_otp_challenge(text)
  /\ pc' = "parsed"
  /\ UNCHANGED <<text, pieces, response, otpinit, codec_vars, engine_vars, adapter_vars,
                 converter_vars>>

NextParser == AppendPiece \/ ParseChallenge

SpecParser == InitParser /\ [][NextParser]_vars

(***************************************************************************)
(* The response parser: a response is put together section by section and *)
(* then handed to parse_otp_response and to parse_otp_init.                *)
(***************************************************************************)
\* the four prefixes, and two in the wrong case: "hex:", "word:", "init-
\* hex:", "init-word:", "Init-hex:", "HEX:"
ResponsePrefixes ==
  { <<104, 101, 120, 58>>,
    <<119, 111, 114, 100, 58>>,
    <<105, 110, 105, 116, 45, 104, 101, 120, 58>>,
    <<105, 110, 105, 116, 45, 119, 111, 114, 100, 58>>,
    <<73, 110, 105, 116, 45, 104, 101, 120, 58>>,
    <<72, 69, 88, 58>> }

\* a first or third section: "5Bf0 75d9<tab>959d 036f", "5bf075d9959d036f",
\* "5bf075d9959d03", "5bf0 75d9 959d 036f 3712", "5bf075d9959d036g",
\* "5bf075d9959d036", "AURA ALOE HURL WING BERG WAIT", "A"
OtpSections ==
  { <<53, 66, 102, 48, 32, 55, 53, 100, 57, 9, 57, 53, 57, 100, 32, 48, 51,
      54, 102>>,
    <<53, 98, 102, 48, 55, 53, 100, 57, 57, 53, 57, 100, 48, 51, 54, 102>>,
    <<53, 98, 102, 48, 55, 53, 100, 57, 57, 53, 57, 100, 48, 51>>,
    <<53, 98, 102, 48, 32, 55, 53, 100, 57, 32, 57, 53, 57, 100, 32, 48,
      51, 54, 102, 32, 51, 55, 49, 50>>,
    <<53, 98, 102, 48, 55, 53, 100, 57, 57, 53, 57, 100, 48, 51, 54, 103>>,
    <<53, 98, 102, 48, 55, 53, 100, 57, 57, 53, 57, 100, 48, 51, 54>>,
    <<65, 85, 82, 65, 32, 65, 76, 79, 69, 32, 72, 85, 82, 76, 32, 87, 73,
      78, 71, 32, 66, 69, 82, 71, 32, 87, 65, 73, 84>>,
    <<65>> }

\* a middle section with its colons: ":md5 499 ke1235:", ":a 1 c:", ":md5
\* +499 ke1235:", ":md5 499 :", ": 499 ke1235:", ":md5 499:", ":md5 499
\* ke1235 x:", ":md5 4a9 ke1235:", ":", ":md5 499 ke1235", ":md5 499
\* ke1235::"; and seven blanks, the fourth a tab
ParamSections ==
  { <<58, 109, 100, 53, 32, 52, 57, 57, 32, 107, 101, 49, 50, 51, 53, 58>>,
    <<58, 97, 32, 49, 32, 99, 58>>,
    <<58, 109, 100, 53, 32, 43, 52, 57, 57, 32, 107, 101, 49, 50, 51, 53, 58>>,
    <<58, 109, 100, 53, 32, 52, 57, 57, 32, 58>>,
    <<58, 32, 52, 57, 57, 32, 107, 101, 49, 50, 51, 53, 58>>,
    <<58, 109, 100, 53, 32, 52, 57, 57, 58>>,
    <<58, 109, 100, 53, 32, 52, 57, 57, 32, 107, 101, 49, 50, 51, 53, 32,
      120, 58>>,
    <<58, 109, 100, 53, 32, 52, 97, 57, 32, 107, 101, 49, 50, 51, 53, 58>>,
    <<58>>,
    <<58, 109, 100, 53, 32, 52, 57, 57, 32, 107, 101, 49, 50, 51, 53>>,
    <<58, 109, 100, 53, 32, 52, 57, 57, 32, 107, 101, 49, 50, 51, 53, 58, 58>>,
    <<32, 32, 32, 9, 32, 32, 32>> }

\* what may follow the third section: ":3712", " ", "fffffffffffffffffffff",
\* "ffffffffffffffffffffff"
Tails ==
  { <<58, 51, 55, 49, 50>>,
    <<32>>,
    <<102, 102, 102, 102, 102, 102, 102, 102, 102, 102, 102, 102, 102, 102,
      102, 102, 102, 102, 102, 102, 102>>,
    <<102, 102, 102, 102, 102, 102, 102, 102, 102, 102, 102, 102, 102, 102,
      102, 102, 102, 102, 102, 102, 102, 102>> }

\* the pieces that may come after k pieces
ResponseParts(k) ==
  CASE k = 0 -> OtpSections
    [] k = 1 -> ParamSections
    [] k = 2 -> OtpSections
    [] OTHER -> Tails

InitResponse ==
  /\ pc = "composing"
  /\ text \in ResponsePrefixes
  /\ pieces = 0
  /\ challenge = None
  /\ response = None
  /\ otpinit = None
  /\ CodecIdle
  /\ EngineIdle
  /\ AdapterIdle
  /\ ConverterIdle

AppendPart ==
  /\ pc = "composing"
  /\ pieces < MaxParts
  /\ \E p \in ResponseParts(pieces) : text' = text \o p
  /\ pieces' = pieces + 1
  /\ UNCHANGED <<pc, challenge, response, otpinit, codec_vars, engine_vars, adapter_vars,
                 converter_vars>>

ParseResponse ==
  /\ pc = "composing"
  /\ response' = parse_otp_response(text)
  /\ otpinit' = parse_otp_init(text)
  /\ pc' = "answered"
  /\ UNCHANGED <<text, pieces, challenge, codec_vars, engine_vars, adapter_vars,
                 converter_vars>>

NextResponse == AppendPart \/ ParseResponse

SpecResponse == InitResponse /\ [][NextResponse]_vars

(***************************************************************************)
(* A caller does one of these: codec, engine or one of the parsers.        *)
(***************************************************************************)
Init ==
  \/ InitCodec
  \/ InitEngine
  \/ InitFold
  \/ InitAdapter
  \/ InitConverter
  \/ InitParser
  \/ InitResponse

Next ==
  \/ NextCodec
  \/ NextEngine
  \/ NextFold
  \/ NextAdapter
  \/ NextConverter
  \/ NextParser
  \/ NextResponse

Spec == Init /\ [][Next]_vars

(***************************************************************************)
(* Reference notions the codec claims are stated with.                     *)
(***************************************************************************)
\* bit i (0 = most significant) of an 8-byte value read big-endian
BeBit(v, i) == (v[(i \div 8) + 1] \div Pow2(7 - (i % 8))) % 2

\* the number held by bits from..from+n-1 of an 8-byte value
BeField(v, from, n) ==
  LET RECURSIVE go(_)
      go(j) == IF j >= n THEN 0
               ELSE (BeBit(v, from + j) * Pow2(n - 1 - j)) + go(j + 1)
  IN go(0)

\* the k-th most significant 11-bit group, k = 1..5
Group11(v, k) == BeField(v, 11 * (k - 1), 11)

\* the low 9 bits
Low9(v) == BeField(v, 55, 9)

\* two-bit group g (0 = bits 0-1) of a byte
TwoBits(n, g) == (n \div Pow2(2 * g)) % 4

\* the sum of the 32 two-bit groups of an 8-byte value
GroupSum(v) ==
  LET RECURSIVE go(_)
      go(k) == IF k > 8 THEN 0
               ELSE TwoBits(v[k], 0) + TwoBits(v[k], 1) + TwoBits(v[k], 2)
                    + TwoBits(v[k], 3) + go(k + 1)
  IN go(1)

AllInDictionary(w) == \A k \in 1..6 : w[k] \in DictWords

\* C1: decoding the six words that encode a value returns that value with
\* the checksum reported valid, for every encoded value.
C1_RoundTrip ==
  /\ pc \in {"encoded", "decoded"} => IsSome(words)
  /\ (pc = "decoded" /\ dwords = words.val) => decoded = Some(<<value, TRUE>>)

C1_Witness ==
  /\ pc = "decoded"
  /\ dwords = words.val
  /\ value = <<79, 41, 106, 116, 254, 21, 103, 236>>
  /\ dwords = <<"AURA", "ALOE", "HURL", "WING", "BERG", "WAIT">>
  /\ decoded = Some(<<value, TRUE>>)

\* C2: word k (k = 1..5) is the dictionary entry at the k-th most
\* significant 11-bit group of the value read big-endian, word 6 the entry
\* at (low 9 bits) * 4 + checksum; every index is in 0..2047 and the
\* encoding succeeds.
C2_EncodeIndices ==
  pc \in {"encoded", "decoded"} =>
    /\ \A k \in 1..5 : bits[k] = Group11(value, k)
    /\ bits[6] = (Low9(value) * 4) + checksum
    /\ \A k \in 1..6 : bits[k] \in 0..2047
    /\ words = Some([k \in 1..6 |-> STANDARD_DICTIONARY[bits[k] + 1]])

C2_Witness ==
  /\ pc = "encoded"
  /\ value = <<158, 135, 97, 52, 217, 4, 153, 221>>
  /\ words = Some(<<"INCH", "SEA", "ANNE", "LONG", "AHEM", "TOUR">>)
  /\ \A k \in 1..5 : bits[k] = Group11(value, k)
  /\ bits[6] = (Low9(value) * 4) + checksum

\* C3: decoding returns None exactly when one of the six words is not an
\* exact entry of the dictionary; six dictionary words always give Some of
\* the bytes their indices spell, with a flag that is false on a checksum
\* mismatch.
C3_DecodeNoneIffUnknown ==
  pc = "decoded" =>
    /\ IsNone(decoded) <=> ~AllInDictionary(dwords)
    /\ AllInDictionary(dwords) =>
         /\ IsSome(decoded)
         /\ \A k \in 1..5 :
              Group11(decoded.val[1], k) = DictPosition[dwords[k]]
         /\ Low9(decoded.val[1]) = DictPosition[dwords[6]] \div 4
         /\ decoded.val[2] =
              (DictPosition[dwords[6]] % 4 = GroupSum(decoded.val[1]) % 4)

C3_Witness ==
  /\ pc = "decoded"
  /\ AllInDictionary(dwords)
  /\ dwords # words.val
  /\ IsSome(decoded)
  /\ decoded.val[2] = FALSE
  /\ decoded.val[1] # value

\* C4: the checksum is the sum of the 32 two-bit groups of the value modulo
\* 4, so it lies in 0..3, and no per-byte sum exceeds what a u8 holds.
C4_Checksum ==
  pc = "encoded" =>
    /\ checksum = GroupSum(value) % 4
    /\ checksum \in 0..3
    /\ \A k \in 1..8 :
         LET g == byte_groups(value[k])
         IN /\ g[1] + g[2] + g[3] + g[4] <= 255
            /\ checksum_of_byte(value[k]) = g[1] + g[2] + g[3] + g[4]

C4_Witness ==
  /\ pc = "encoded"
  /\ \E k \in 1..8 : value[k] = 255 /\ checksum_of_byte(value[k]) = 12
  /\ checksum = 3

(***************************************************************************)
(* Reference notions the engine claims are stated with.                    *)
(***************************************************************************)
BuiltIn == {"md4", "md5", "sha1"}

IsAsciiLetter(b) == b \in 65..90 \/ b \in 97..122

\* two texts that differ only in the case of ASCII letters
SameButAsciiCase(s, t) ==
  /\ Len(s) = Len(t)
  /\ \A i \in 1..Len(s) :
       \/ s[i] = t[i]
       \/ /\ IsAsciiLetter(s[i])
          /\ IsAsciiLetter(t[i])
          /\ s[i] - t[i] \in {32, -32}

\* a text with its ASCII capitals replaced by the small letters
AsciiLower(s) ==
  [i \in 1..Len(s) |-> IF s[i] >= 65 /\ s[i] <= 90 THEN s[i] + 32 ELSE s[i]] \o <<>>

\* does the registry resolve the name
Registered ==
  IsSome(registry) /\ alg \in DOMAIN registry.val

BuiltInRoutine(name, p, s, n) ==
  CASE name = "md4" -> calculate_md4_otp(p, s, n)
    [] name = "md5" -> calculate_md5_otp(p, s, n)
    [] name = "sha1" -> calculate_sha1_otp(p, s, n)

\* the hash H and the fold F of a built-in algorithm
HashOf(name, data) ==
  CASE name = "md4" -> md4_digest(data)
    [] name = "md5" -> md5_compute(data)
    [] name = "sha1" -> sha1_digest(data)

FoldOf(name, digest) ==
  IF name = "sha1" THEN fold_sha1(digest) ELSE fold_md(digest)

First8(x) == SubSeq(x, 1, 8)

\* C5: calculate_otp returns None exactly when the name is none of "md4",
\* "md5", "sha1" (compared exactly) and no registry was supplied or the
\* registry does not know the name; a built-in name is computed by the
\* built-in routine and the registry is not asked.
C5_NoneIffUnresolved ==
  pc = "done" =>
    /\ IsNone(otp) <=> (alg \notin BuiltIn /\ ~Registered)
    /\ alg \in BuiltIn =>
         /\ asked = <<>>
         /\ otp = BuiltInRoutine(alg, pass, cow_to_ascii_lowercase(seed), count)

C5_Witness ==
  /\ pc = "done"
  /\ alg = "MD5"
  /\ IsSome(registry)
  /\ asked = <<"MD5">>
  /\ IsNone(otp)

\* C6: once the algorithm is resolved, by a built-in name or by a registry
\* digest of at most 64 bytes, calculate_otp completes and returns 8 bytes.
C6_NeverAborts ==
  (pc = "done" /\ (alg \in BuiltIn \/ (Registered /\ registry.val[alg].size <= 64)))
    => (IsSome(otp) /\ Len(otp.val) = 8)

\* C7: for a built-in algorithm, count 0 gives the first 8 bytes of
\* F(H(lowercase(seed) ++ passphrase)), and count n + 1 gives the first 8
\* bytes of F(H(result for count n)).
C7_Chain ==
  (pc = "done" /\ alg \in BuiltIn) =>
    IF count = 0
    THEN otp = Some(First8(FoldOf(alg, HashOf(alg, AsciiLower(seed) \o pass))))
    ELSE LET before == calculate_otp(alg, pass, seed, count - 1, registry).result
         IN /\ IsSome(before)
            /\ otp = Some(First8(FoldOf(alg, HashOf(alg, before.val))))

C7_Witness ==
  /\ pc = "done"
  /\ alg = "sha1"
  /\ count = 2
  /\ seed # <<>>
  /\ IsSome(otp)
  /\ otp # calculate_otp(alg, pass, seed, 1, registry).result

\* C8: only the ASCII letters of the seed are lower-cased and the passphrase
\* is used as it is: seeds that differ only in the case of ASCII letters
\* give the same result, which is that of the routine of the algorithm on
\* the passphrase and the ASCII-lower-cased seed.
C8_SeedLowercased ==
  pc = "done" =>
    /\ \A t \in Seeds :
         SameButAsciiCase(seed, t) =>
           calculate_otp(alg, pass, t, count, registry).result = otp
    /\ alg \in BuiltIn =>
         otp = BuiltInRoutine(alg, pass, AsciiLower(seed), count)
    /\ (alg \notin BuiltIn /\ Registered) =>
         otp = calculate_otp_via_digest(registry.val[alg], pass,
                                        AsciiLower(seed), count)

C8_Witness ==
  /\ pc = "done"
  /\ alg = "md5"
  /\ seed = <<84, 195, 137>>
  /\ pass = <<65>>
  /\ IsSome(otp)
  /\ otp = calculate_otp(alg, pass, <<116, 195, 137>>, count, registry).result
  /\ otp # calculate_otp(alg, pass, <<116, 195, 169>>, count, registry).result
  /\ otp # calculate_otp(alg, <<97>>, seed, count, registry).result


(***************************************************************************)
(* Reference notions the parser claims are stated with.                    *)
(***************************************************************************)
\* space, tab, line feed, form feed, carriage return
Whitespace == {9, 10, 12, 13, 32}

\* the positions where a token of x starts
TokenStarts(x) ==
  {i \in 1..Len(x) : x[i] \notin Whitespace /\ (i = 1 \/ x[i - 1] \in Whitespace)}

\* the token that starts at position i: the longest run without whitespace
TokenAt(x, i) ==
  LET last == CHOOSE j \in i..Len(x) :
                /\ j = Len(x) \/ x[j + 1] \in Whitespace
                /\ \A m \in i..j : x[m] \notin Whitespace
  IN SubSeq(x, i, last)

\* the k-th whitespace-delimited token of x
Token(x, k) ==
  LET starts == TokenStarts(x)
      at == CHOOSE i \in starts : Cardinality({s \in starts : s < i}) = k - 1
  IN TokenAt(x, at)

TokenCount(x) == Cardinality(TokenStarts(x))

\* what follows the four bytes of the prefix
AfterPrefix(s) == SubSeq(s, 5, Len(s))

\* the characters of a UTF-8 text: the bytes that do not continue another
CharLen(s) == Cardinality({i \in 1..Len(s) : s[i] \notin 128..191})

\* the digits of a number without its leading zeros
Canonical(digits) ==
  LET nonzero == {i \in 1..Len(digits) : digits[i] # 0}
  IN IF nonzero = {} THEN <<0>>
     ELSE SubSeq(digits, CHOOSE i \in nonzero : \A j \in nonzero : i <= j,
                 Len(digits))

\* a non-empty run of ASCII digits
IsDigitRun(tok) == tok # <<>> /\ \A i \in 1..Len(tok) : tok[i] \in 48..57

DigitsOf(tok) == [i \in 1..Len(tok) |-> tok[i] - 48] \o <<>>

\* 2^64 - 1, the largest count
MaxCountDigits == <<1, 8, 4, 4, 6, 7, 4, 4, 0, 7, 3, 7, 0, 9, 5, 5, 1, 6, 1, 5>>

\* a <= b for two numbers given by their digits without leading zeros
DigitsLeq(a, b) ==
  \/ Len(a) < Len(b)
  \/ /\ Len(a) = Len(b)
     /\ \/ a = b
        \/ \E k \in 1..Len(a) : a[k] < b[k] /\ SubSeq(a, 1, k - 1) = SubSeq(b, 1, k - 1)

\* a decimal number: a non-empty run of ASCII digits that fits the count
IsDecimal(tok) ==
  IsDigitRun(tok) /\ DigitsLeq(Canonical(DigitsOf(tok)), MaxCountDigits)

\* a token read as a decimal number, a sign in front allowed
ReadDecimal(tok) ==
  IF tok # <<>> /\ tok[1] = 43 THEN Canonical(DigitsOf(Tail(tok)))
  ELSE Canonical(DigitsOf(tok))

\* C9: an accepted string gives the first, second (as a number) and third
\* token after the prefix, and a further token appended within the length
\* bound leaves the result as it is.
C9_TokensInOrder ==
  (pc = "parsed" /\ IsSome(challenge)) =>
    LET x == AfterPrefix(text)
    IN /\ TokenCount(x) >= 3
       /\ challenge.val.hash_alg = Token(x, 1)
       /\ challenge.val.hash_count = ReadDecimal(Token(x, 2))
       /\ challenge.val.seed = Token(x, 3)
       /\ \A extra \in Pieces :
            Len(text \o extra) <= 128 =>
              parse_otp_challenge(text \o extra) = challenge

C9_Witness ==
  /\ pc = "parsed"
  /\ text = <<111, 116, 112, 45, 109, 100, 53, 32, 48, 55, 9,
              109, 100, 53, 32, 43, 55, 32>>
  /\ challenge = Some([hash_alg |-> <<109, 100, 53>>,
                       hash_count |-> <<7>>,
                       seed |-> <<109, 100, 53>>])

\* C10: a string shorter than 9 or longer than 128 characters, or without
\* the prefix "otp-", or with fewer than three tokens after the prefix, or
\* whose second token is not a run of ASCII digits that fits the count, is
\* answered with None.
C10_Rejects ==
  (/\ pc = "parsed"
   /\ \/ CharLen(text) < 9
      \/ CharLen(text) > 128
      \/ SubSeq(text, 1, 4) # <<111, 116, 112, 45>>
      \/ TokenCount(AfterPrefix(text)) < 3
      \/ ~IsDecimal(Token(AfterPrefix(text), 2)))
    => IsNone(challenge)

(***************************************************************************)
(* Reference notions the response claims are stated with.                  *)
(***************************************************************************)
LowerHexDigits == <<48, 49, 50, 51, 52, 53, 54, 55, 56, 57, 97, 98, 99, 100, 101, 102>>

UpperHexDigits == <<48, 49, 50, 51, 52, 53, 54, 55, 56, 57, 65, 66, 67, 68, 69, 70>>

IsHexDigit(c) == \E v \in 1..16 : c = LowerHexDigits[v] \/ c = UpperHexDigits[v]

HexDigitValue(c) ==
  (CHOOSE v \in 1..16 : c = LowerHexDigits[v] \/ c = UpperHexDigits[v]) - 1

\* the positions of x that hold neither a space nor a tab
NonBlank(x) == {i \in 1..Len(x) : x[i] \notin {32, 9}}

\* x without its spaces and tabs is 16 hexadecimal digits
IsHex64(x) ==
  /\ Cardinality(NonBlank(x)) = 16
  /\ \A i \in NonBlank(x) : IsHexDigit(x[i])

\* the 8 bytes those digits denote
Hex64(x) ==
  LET kept == NonBlank(x)
      digit(k) == x[CHOOSE i \in kept : Cardinality({j \in kept : j < i}) = k - 1]
  IN [m \in 1..8 |->
        (16 * HexDigitValue(digit((2 * m) - 1))) + HexDigitValue(digit(2 * m))] \o <<>>

HasPrefix(s, p) == Len(s) >= Len(p) /\ \A i \in 1..Len(p) : s[i] = p[i]

\* s without its first n bytes
Rest(s, n) == [i \in 1..(Len(s) - n) |-> s[i + n]] \o <<>>

IsHexResponse == HasPrefix(text, <<104, 101, 120, 58>>)

IsWordResponse == HasPrefix(text, <<119, 111, 114, 100, 58>>)

IsInitHexResponse == HasPrefix(text, <<105, 110, 105, 116, 45, 104, 101, 120, 58>>)

IsInitWordResponse ==
  HasPrefix(text, <<105, 110, 105, 116, 45, 119, 111, 114, 100, 58>>)

CurrentHex(b) ==
  [tag |-> "Some",
   val |-> [kind |-> "Current", current |-> [kind |-> "Hex", hex |-> b]]]

CurrentWords(w) ==
  [tag |-> "Some",
   val |-> [kind |-> "Current", current |-> [kind |-> "Words", words |-> w]]]

\* C11: a response "hex:.." within the length bound is accepted exactly
\* when its payload without spaces and tabs is 16 hexadecimal digits of
\* either case, and the result is Current(Hex) of the 8 bytes they denote;
\* every other payload is answered with None.
C11_HexResponse ==
  (pc = "answered" /\ IsHexResponse /\ Len(text) >= 20 /\ Len(text) <= 100) =>
    IF IsHex64(Rest(text, 4))
    THEN response = CurrentHex(Hex64(Rest(text, 4)))
    ELSE response = None

C11_Witness ==
  /\ pc = "answered"
  /\ text = <<104, 101, 120, 58, 53, 66, 102, 48, 32, 55, 53, 100, 57, 9,
              57, 53, 57, 100, 32, 48, 51, 54, 102>>
  /\ response = CurrentHex(<<91, 240, 117, 217, 149, 157, 3, 111>>)

\* C12: a response "word:.." within the length bound is accepted, and the
\* result is Current(Words) of everything after the prefix, as it stands.
C12_WordResponse ==
  (pc = "answered" /\ IsWordResponse /\ Len(text) >= 20 /\ Len(text) <= 100) =>
    response = CurrentWords(Rest(text, 5))

C12_Witness ==
  /\ pc = "answered"
  /\ text = <<119, 111, 114, 100, 58, 53, 98, 102, 48, 55, 53, 100, 57, 57,
              53, 57, 100, 48, 51, 54>>
  /\ IsSome(response)
  /\ response.val.current.words =
       <<53, 98, 102, 48, 55, 53, 100, 57, 57, 53, 57, 100, 48, 51, 54>>

\* what follows the prefix of an init response
InitBody == IF IsInitHexResponse THEN Rest(text, 9) ELSE Rest(text, 10)

Colons(x) == {i \in 1..Len(x) : x[i] = 58}

\* the three sections of a text with exactly two colons
FirstSection(x) ==
  SubSeq(x, 1, (CHOOSE c \in Colons(x) : \A d \in Colons(x) : c <= d) - 1)

MiddleSection(x) ==
  SubSeq(x, (CHOOSE c \in Colons(x) : \A d \in Colons(x) : c <= d) + 1,
            (CHOOSE c \in Colons(x) : \A d \in Colons(x) : c >= d) - 1)

ThirdSection(x) ==
  SubSeq(x, (CHOOSE c \in Colons(x) : \A d \in Colons(x) : c >= d) + 1, Len(x))

\* the space-delimited tokens of x: the longest runs without a space
SpaceTokenStarts(x) ==
  {i \in 1..Len(x) : x[i] # 32 /\ (i = 1 \/ x[i - 1] = 32)}

SpaceTokenCount(x) == Cardinality(SpaceTokenStarts(x))

SpaceToken(x, k) ==
  LET starts == SpaceTokenStarts(x)
      at == CHOOSE i \in starts : Cardinality({s \in starts : s < i}) = k - 1
      last == CHOOSE j \in at..Len(x) :
                /\ j = Len(x) \/ x[j + 1] = 32
                /\ \A m \in at..j : x[m] # 32
  IN SubSeq(x, at, last)

\* an OTP section of an init response as the result holds it
OtpOf(section) ==
  IF IsInitHexResponse THEN [kind |-> "Hex", hex |-> Hex64(section)]
  ELSE [kind |-> "Words", words |-> section]

\* the fields of an accepted init response are those of its three sections
InitFieldsRight(i) ==
  LET x == InitBody
  IN /\ Cardinality(Colons(x)) = 2
     /\ IsInitHexResponse => (IsHex64(FirstSection(x)) /\ IsHex64(ThirdSection(x)))
     /\ i.current_otp = OtpOf(FirstSection(x))
     /\ i.new_otp = OtpOf(ThirdSection(x))
     /\ SpaceTokenCount(MiddleSection(x)) >= 3
     /\ i.new_alg = SpaceToken(MiddleSection(x), 1)
     /\ i.new_seed = SpaceToken(MiddleSection(x), 3)
     /\ i.new_seq_num = ReadDecimal(SpaceToken(MiddleSection(x), 2))

\* C13: an accepted init response has exactly three colon-separated
\* sections after its prefix; current_otp is the first and new_otp the third
\* (8 decoded bytes for init-hex, the section text for init-word), and
\* new_alg, new_seq_num (as a number) and new_seed are the first, second and
\* third space-delimited token of the middle section.
C13_InitFields ==
  pc = "answered" =>
    /\ (IsSome(response) /\ response.val.kind = "Init") =>
         InitFieldsRight(response.val.init)
    /\ IsSome(otpinit) => InitFieldsRight(otpinit.val)

\* an init response that is not well formed
InitMalformed ==
  LET x == InitBody
  IN IF Cardinality(Colons(x)) # 2 THEN TRUE
     ELSE IF IsInitHexResponse
             /\ (~IsHex64(FirstSection(x)) \/ ~IsHex64(ThirdSection(x)))
     THEN TRUE
     ELSE IF SpaceTokenCount(MiddleSection(x)) < 3 THEN TRUE
     ELSE ~IsDecimal(SpaceToken(MiddleSection(x), 2))

\* C14: an init response with a colon-section missing or too many, with
\* fewer than three tokens in the middle section, with a sequence number
\* that is not decimal, or (init-hex) with a section that is not 8 bytes of
\* hex, is answered with None by parse_otp_response and by parse_otp_init.
C14_InitRejects ==
  (pc = "answered" /\ (IsInitHexResponse \/ IsInitWordResponse) /\ InitMalformed)
    => (response = None /\ otpinit = None)

\* C15: an init response of at most 50 or of more than 100 bytes is
\* answered with None by parse_otp_init and by parse_otp_response.
C15_InitLength ==
  (/\ pc = "answered"
   /\ IsInitHexResponse \/ IsInitWordResponse
   /\ Len(text) <= 50 \/ Len(text) > 100)
    => (otpinit = None /\ response = None)

\* C16: a response shorter than 20 or longer than 100 bytes is answered
\* with None whatever it holds, and so is one that starts with none of
\* "hex:", "word:", "init-hex:", "init-word:".
C16_ResponseLength ==
  pc = "answered" =>
    /\ (Len(text) < 20 \/ Len(text) > 100) => response = None
    /\ ~(IsHexResponse \/ IsWordResponse \/ IsInitHexResponse \/ IsInitWordResponse)
         => response = None

C16_Witness ==
  /\ pc = "answered"
  /\ IsWordResponse
  /\ Len(text) = 101
  /\ response = None

(***************************************************************************)
(* Reference notions the fold claims are stated with.                      *)
(***************************************************************************)
\* bit b of the XOR of the bytes of x at the positions in S: set when an
\* odd number of them has it set
XorBit(x, S, b) == Cardinality({i \in S : (x[i] \div Pow2(b)) % 2 = 1}) % 2

\* the XOR of the bytes of x at the positions in S
XorOf(x, S) ==
  XorBit(x, S, 0) + (2 * XorBit(x, S, 1)) + (4 * XorBit(x, S, 2))
  + (8 * XorBit(x, S, 3)) + (16 * XorBit(x, S, 4)) + (32 * XorBit(x, S, 5))
  + (64 * XorBit(x, S, 6)) + (128 * XorBit(x, S, 7))

\* the 0-based positions i < Len(x) with i mod 8 = k, as 1-based indices
Residue(x, k) == {i \in 1..Len(x) : (i - 1) % 8 = k}

\* x with each of its first 8 bytes replaced by the XOR of its residue class
XorFolded(x) ==
  [i \in 1..Len(x) |-> IF i <= 8 THEN XorOf(x, Residue(x, i - 1)) ELSE x[i]] \o <<>>

\* C17: fold_md on a buffer of at least 8 bytes leaves in byte k (k in
\* 0..7) the XOR of all original bytes at the positions i with i mod 8 = k,
\* and leaves every byte from position 8 on as it was.
C17_FoldMd ==
  (pc = "folded" /\ Len(buf) >= 8) =>
    /\ IsSome(folded)
    /\ Len(folded.val) = Len(buf)
    /\ \A k \in 0..7 : folded.val[k + 1] = XorOf(buf, Residue(buf, k))
    /\ \A i \in 9..Len(buf) : folded.val[i] = buf[i]

C17_Witness ==
  /\ pc = "folded"
  /\ Len(buf) = 19
  /\ IsSome(folded)
  /\ folded.val # buf
  /\ folded.val = XorFolded(buf)
  /\ folded.val[3] # XorOf(buf, {3, 11})

\* C18: fold_md on a buffer shorter than 8 bytes does not return as if the
\* fold had been done: it rejects or asserts.
C18_FoldRejectsShort ==
  (pc = "folded" /\ Len(buf) < 8) => IsPanic(folded)

\* 8 bytes with each half of 4 bytes reversed
ReverseHalves(x) == <<x[4], x[3], x[2], x[1], x[8], x[7], x[6], x[5]>>

\* the XOR fold with the first 8 bytes permuted as for SHA-1
Sha1Folded(d) ==
  ReverseHalves(SubSeq(XorFolded(d), 1, 8)) \o SubSeq(d, 9, Len(d))

\* the SHA-1 digest the prime step of the engine folds
PrimeSha1 == sha1_digest(AsciiLower(seed) \o pass)

\* the 8 bytes after n iterations when every fold is the permuted one
RECURSIVE Sha1Chain(_)
Sha1Chain(n) ==
  IF n = 0 THEN SubSeq(Sha1Folded(PrimeSha1), 1, 8)
  ELSE SubSeq(Sha1Folded(sha1_digest(Sha1Chain(n - 1))), 1, 8)

\* C19: fold_sha1 on a 20-byte digest is the XOR fold with each 4-byte half
\* of the first 8 bytes reversed and bytes 8..19 unchanged, and
\* calculate_sha1_otp applies it after the prime hash and after every
\* iteration, feeding the permuted 8 bytes to the next hash.
C19_FoldSha1 ==
  (pc = "done" /\ alg = "sha1") =>
    /\ Len(PrimeSha1) = 20
    /\ fold_sha1(PrimeSha1) = Sha1Folded(PrimeSha1)
    /\ otp = Some(Sha1Chain(count))

C19_Witness ==
  /\ pc = "done"
  /\ alg = "sha1"
  /\ count = 1
  /\ pass # <<>>
  /\ otp = Some(Sha1Chain(1))
  /\ otp.val # SubSeq(XorFolded(sha1_digest(SubSeq(XorFolded(PrimeSha1), 1, 8))), 1, 8)

\* the native output size of the resolved algorithm
NativeSize ==
  CASE alg \in {"md4", "md5"} -> 16
    [] alg = "sha1" -> 20
    [] OTHER -> registry.val[alg].size

NativeHash(data) ==
  IF alg \in BuiltIn THEN HashOf(alg, data)
  ELSE Digest(registry.val[alg].salt, registry.val[alg].size, data)

NativeFold(d) == IF alg = "sha1" THEN Sha1Folded(d) ELSE XorFolded(d)

\* the folded buffer after n iterations when each iteration hashes the
\* previous folded buffer truncated to the native output size
RECURSIVE NativeChain(_)
NativeChain(n) ==
  IF n = 0 THEN NativeFold(NativeHash(AsciiLower(seed) \o pass))
  ELSE NativeFold(NativeHash(SubSeq(NativeChain(n - 1), 1, NativeSize)))

\* C20: on the generic path and on the md4, md5 and sha1 paths every
\* iteration hashes the previous folded value truncated to the native
\* output size of the algorithm, and the result is the first 8 bytes of the
\* folded value after the last iteration, whenever the engine returns one.
C20_NativeSizeFed ==
  (pc = "done" /\ (alg \in BuiltIn \/ Registered) /\ IsSome(otp)) =>
    otp = Some(SubSeq(NativeChain(count), 1, 8))
(***************************************************************************)
(* Reference notions the generic-path claims are stated with.              *)
(***************************************************************************)
\* the call of calculate_otp_via_digest has ended, by a return or a panic
Ended == pc \in {"returned", "aborted"}

IsUpdate(c) == c.op = "update"

IsFinalize(c) == c.op = "finalize_into_reset"

\* the positions of the finalisations among the calls made
Finalizations == {j \in 1..Len(ops) : IsFinalize(ops[j])}

\* the bytes fed by the updates from call i to call j, concatenated
RECURSIVE FedBetween(_, _)
FedBetween(i, j) ==
  IF i > j THEN <<>>
  ELSE (IF IsUpdate(ops[i]) THEN ops[i].arg ELSE <<>>) \o FedBetween(i + 1, j)

\* the position of the last finalisation before call j, or 0
PreviousFinalization(j) ==
  LET before == {k \in Finalizations : k < j}
  IN IF before = {} THEN 0 ELSE CHOOSE k \in before : \A l \in before : l <= k

\* the value an iteration starts from: the folded digest of the finalisation
\* at call j, cut to the output size of the hasher
PreviousValue(j) == SubSeq(XorFolded(ops[j].out), 1, hasher.size)

\* C21: a call of calculate_otp_via_digest with count = n makes on its one
\* hasher the calls update(seed), update(passphrase), finalize_into_reset,
\* then n times update(previous value), finalize_into_reset: n + 1
\* finalisations in all, the hasher holds no input after each of them, and
\* each digest is that of the bytes fed since the finalisation before it.
C21_AdapterCalls ==
  Ended =>
    /\ Len(ops) = 3 + (2 * count)
    /\ IsUpdate(ops[1]) /\ ops[1].arg = seed
    /\ IsUpdate(ops[2]) /\ ops[2].arg = pass
    /\ IsFinalize(ops[3])
    /\ \A k \in 1..count :
         /\ IsUpdate(ops[(2 * k) + 2])
         /\ ops[(2 * k) + 2].arg = PreviousValue((2 * k) + 1)
         /\ IsFinalize(ops[(2 * k) + 3])
    /\ Cardinality(Finalizations) = count + 1
    /\ \A j \in Finalizations :
         /\ ops[j].ok
         /\ ops[j].pending = <<>>
         /\ ops[j].out = Digest(hasher.salt, hasher.size,
                                FedBetween(PreviousFinalization(j) + 1, j))
(***************************************************************************)
(* Reference notions the converter claims are stated with.                 *)
(***************************************************************************)
\* the k-th whitespace-delimited token of a text, as a word
WordOf(x, k) == as_str(Token(x, k))

\* exactly six tokens, every one an entry of the dictionary
SixKnownWords(x) ==
  /\ TokenCount(x) = 6
  /\ \A k \in 1..6 : WordOf(x, k) \in DictWords

\* bit j (0 = most significant) of the value six indices spell: five groups
\* of 11 bits, then the upper 9 of the 11 bits of the sixth index
SpelledBit(ix, j) ==
  IF j < 55 THEN (ix[(j \div 11) + 1] \div Pow2(10 - (j % 11))) % 2
  ELSE ((ix[6] \div 4) \div Pow2(63 - j)) % 2

\* the 8 bytes six indices spell
Spelled(ix) ==
  [i \in 1..8 |->
     LET bit(b) == SpelledBit(ix, (8 * (i - 1)) + b)
     IN (128 * bit(0)) + (64 * bit(1)) + (32 * bit(2)) + (16 * bit(3))
        + (8 * bit(4)) + (4 * bit(5)) + (2 * bit(6)) + bit(7)] \o <<>>

\* the indices of the six words of a text
IndicesOf(x) == [k \in 1..6 |-> DictPosition[WordOf(x, k)]]

\* the two low bits of the sixth index are the checksum of the spelled value
ChecksumCarried(x) ==
  IndicesOf(x)[6] % 4 = GroupSum(Spelled(IndicesOf(x))) % 4

\* C22: try_into_bytes gives Some(h) for Hex(h); for Words(w) it gives
\* Some(v) exactly when w has six whitespace-delimited tokens, all of them
\* dictionary words, and the sixth carries the checksum of the bytes v the
\* six words spell; in every other case it gives None.
C22_TryIntoBytes ==
  pc = "converted" =>
    IF hex_or_words.kind = "Hex"
    THEN into_bytes = Some(hex_or_words.hex)
    ELSE LET w == hex_or_words.words
         IN IF SixKnownWords(w) /\ ChecksumCarried(w)
            THEN into_bytes = Some(Spelled(IndicesOf(w)))
            ELSE into_bytes = None

C22_Witness ==
  /\ pc = "converted"
  /\ hex_or_words.kind = "Words"
  /\ \E i \in 1..Len(hex_or_words.words) : hex_or_words.words[i] = 9
  /\ SixKnownWords(hex_or_words.words)
  /\ WordOf(hex_or_words.words, 6) = "WAIT"
  /\ into_bytes = Some(<<79, 41, 106, 116, 254, 21, 103, 236>>)
\* no word stands at two positions of the dictionary
PairwiseDistinct == Cardinality(DictWords) = DictLen

\* the sixth words, among the four that share the upper 9 bits of the index,
\* with which the six words decode as checksum-valid
ValidSixthWords(w) ==
  {x \in SixthWords(w) :
     decode_word_format_with_std_dict([w EXCEPT ![6] = x]).val[2]}

\* C23: six dictionary words w decode to Some((v, flag)), and flag is true
\* exactly when convert_to_word_format(v) = w; of the four sixth words that
\* share the upper 9 bits of the index exactly one decodes as valid (counted
\* once for each five leading words and upper 9 bits, where the sixth word
\* is the encoder's); the 2048 entries of the dictionary are pairwise
\* distinct, so every word has one index.
C23_ValidIffEncoding ==
  /\ DictLen = 2048
  /\ PairwiseDistinct
  /\ (pc = "decoded" /\ AllInDictionary(dwords)) =>
       /\ IsSome(decoded)
       /\ decoded.val[2] <=> (convert_to_word_format(decoded.val[1]) = Some(dwords))
       /\ dwords[6] = words.val[6] => Cardinality(ValidSixthWords(dwords)) = 1
       /\ \A k \in 1..6 :
            STANDARD_DICTIONARY[DictPosition[dwords[k]] + 1] = dwords[k]

C23_Witness ==
  /\ pc = "decoded"
  /\ dwords = <<"AURA", "ALOE", "HURL", "WING", "BERG", "WAIL">>
  /\ words = Some(<<"AURA", "ALOE", "HURL", "WING", "BERG", "WAIT">>)
  /\ decoded = Some(<<value, FALSE>>)
  /\ ValidSixthWords(dwords) = {"WAIT"}
(***************************************************************************)
(* Reference notions the claims on parsed structures are stated with.      *)
(***************************************************************************)
\* the algorithm and the seed of a parsed challenge are not empty
ChallengeNamed(c) == c.hash_alg # <<>> /\ c.seed # <<>>

\* the algorithm and the seed of a parsed init response are not empty
InitNamed(i) == i.new_alg # <<>> /\ i.new_seed # <<>>

\* C24: every structure a parser returns names an algorithm and a seed:
\* hash_alg and seed of an OTPChallenge of parse_otp_challenge, new_alg and
\* new_seed of an OTPInit of parse_otp_init or of parse_otp_response, are
\* not empty.
C24_FieldsNonEmpty ==
  /\ IsSome(challenge) => ChallengeNamed(challenge.val)
  /\ IsSome(otpinit) => InitNamed(otpinit.val)
  /\ (IsSome(response) /\ response.val.kind = "Init") =>
       InitNamed(response.val.init)
(***************************************************************************)
(* Reference notions the claim on the two paths is stated with.            *)
(***************************************************************************)
\* the hash of the adapter the generic path is given
AdapterHash(data) == Digest(hasher.salt, hasher.size, data)

\* the adapter computes MD5, as md5::compute does
IsMd5Adapter == AdapterHash(<<>>) = md5_compute(<<>>) /\ hasher.size = 16

\* the folded buffer of the built-in MD path after n iterations, with the
\* hash of the adapter in the place of the built-in one
RECURSIVE MdPathChain(_)
MdPathChain(n) ==
  IF n = 0 THEN XorFolded(AdapterHash(seed \o pass))
  ELSE XorFolded(AdapterHash(SubSeq(MdPathChain(n - 1), 1, 8)))

\* C25: for an adapter of at least 8 bytes calculate_otp_via_digest returns
\* the 8 bytes the built-in MD path returns for the same hash, passphrase,
\* lower-cased seed and count; for an MD5 adapter these are the 8 bytes of
\* calculate_md5_otp.
C25_SamePaths ==
  (Ended /\ hasher.size >= 8) =>
    /\ otp = Some(SubSeq(MdPathChain(count), 1, 8))
    /\ IsMd5Adapter => otp = calculate_md5_otp(pass, seed, count)
=============================================================================
